---------------------------- MODULE Spec2Model ----------------------------
(***************************************************************************)
(* A model of the QMF management agent of qpid-cpp                         *)
(* (src/qpid/agent/ManagementAgentImpl.cpp): the identity store, the       *)
(* schema and object registries, the publication pass, the inbound         *)
(* handlers, the external-thread bridge and the connection thread.         *)
(***************************************************************************)
EXTENDS Integers, Sequences, FiniteSets, TLC

\* ------------------------------------------------------------------ bounds
\* Number of managed objects the host creates.
NObj == 2
\* Failed connection attempts in a row.
MaxFails == 9
\* Method requests queued for the host thread, and signalling bytes in the pipe.
MaxQueue == 2
MaxPipe == 3
\* Objects in the registry a single publication pass is run over.
NPass == 3

\* --------------------------------------------------------- program constants
\* uint16_t bootSequence: arithmetic is modulo 2^16.
SeqModulus == 65536
\* The wrap mask of init(), 0xF000, selects the bits from NibbleUnit upwards.
NibbleUnit == 4096
\* ConnectionThread::run: delayMin, delayMax, delayFactor.
delayMin == 1
delayMax == 128
delayFactor == 2

VARIABLES
    \* identity state and the identity file
    storeFile, bootSequence, initialized, extThread,
    \* schema registry: package name -> (class key -> SchemaClass)
    packages,
    \* object registry
    newManagementObjects, managementObjects, objs, clientWasAdded, connected,
    \* connection supervisor flag read by sendMessage
    operational,
    \* external-thread bridge: the signalling means, the queue of deferred
    \* method requests, the callback flag, and the host thread's position in
    \* pollCallbacks
    pipeHandle, pipeBytes, notifyable, notifyCallback, methodQueue, inCallback,
    poll,
    \* connection thread: its position in run(), its locals delay and
    \* totalSleep; and the history of its attempts: the failed attempts in a
    \* row, the delay that row started from, the outcome of the last attempt
    ctPc, delay, totalSleep, fails, baseDelay, lastAttempt,
    \* lifecycle: the connection thread's shutdown flag, whether stop() was
    \* called on the subscription manager the thread holds, whether the
    \* connection is open, the position inside sendMessage of a thread
    \* other than the connection thread, and whether the shared pointer
    \* subscriptions holds a manager
    shutdown, subStop, connOpen, sender, subscriptions,
    \* threads: the owner of each mutex, the position and the locals of the
    \* publisher thread, the connection thread and a host thread while they
    \* run statement by statement
    agentLock, addLock, connLock, threads,
    \* history: the operation of the last step, the messages it handed to
    \* messageTransfer, what it was given and observed, and whether a locate
    \* request was handled since the last publication pass
    op, out, seen, locateSeen

idVars == <<storeFile, bootSequence, initialized, extThread>>
schemaVars == <<packages>>
regVars == <<newManagementObjects, managementObjects, objs, clientWasAdded>>
linkVars == <<connected, operational>>
bridgeVars == <<pipeHandle, pipeBytes, notifyable, notifyCallback, methodQueue,
                inCallback, poll>>
connVars == <<ctPc, delay, totalSleep, fails, baseDelay, lastAttempt>>
lifeVars == <<shutdown, subStop, connOpen, sender, subscriptions>>
thrVars == <<agentLock, addLock, connLock, threads>>
histVars == <<op, out, seen, locateSeen>>
vars == <<idVars, schemaVars, regVars, linkVars, bridgeVars, connVars, lifeVars,
          thrVars, histVars>>

\* ------------------------------------------------------------------ values
Objs == 1 .. NObj
\* The v2 keys in use: two strings, numbered in their sort order.
Keys == {1, 2}
\* The key argument of addObject: 0 stands for the empty string.
KeyArgs == {0} \cup Keys
Classes == {"A", "B"}

\* The class of a host object (getClassName / getMd5Sum), fixed per object.
ClassOf(o) == IF o % 3 = 0 THEN "B" ELSE "A"
\* getPackageName of a class.
PackageOf(c) == IF c = "A" THEN "P" ELSE "Q"
\* hasInst: whether the class carries statistics.
HasInst(c) == c = "A"
\* isSameClass of two host objects.
isSameClass(a, b) == ClassOf(a) = ClassOf(b)
\* ObjectId::setV2Key(const ManagementObject&): the object derives its key.
DerivedKey(o) == IF o % 2 = 1 THEN 1 ELSE 2

\* ObjectId(&attachment, 0, sequence) followed by setV2Key.
ObjectId(sequence, key) == [epoch |-> sequence, key |-> key]
\* operator< of the map's key: over the full composite.
OidLess(a, b) == a.epoch < b.epoch \/ (a.epoch = b.epoch /\ a.key < b.key)

\* std::map iteration order of a set of ObjectIds.
RECURSIVE MapOrder(_)
MapOrder(S) ==
    IF S = {} THEN <<>>
    ELSE LET m == CHOOSE x \in S : \A y \in S \ {x} : OidLess(x, y)
         IN  <<m>> \o MapOrder(S \ {m})

\* A freshly constructed host object, not yet handed to the agent.
NewObject ==
    [st |-> "new", configChanged |-> TRUE, instChanged |-> TRUE,
     forcePublish |-> FALSE, deleted |-> FALSE]

\* What is left of an object after delete: nothing of it is read again.
DeletedObject == [NewObject EXCEPT !.st = "destroyed"]

EmptyMap == [x \in {} |-> 0]

\* ---------------------------------------------------------------- messages
Msg(opcode, partial, list) == [opcode |-> opcode, partial |-> partial, list |-> list]
HeartbeatMsg == Msg("_agent_heartbeat_indication", FALSE, <<>>)

\* ListCodec::encode: a size and a count, then the elements.
ListCodecEncode(list) == <<Len(list), Len(list)>> \o list

\* ConnectionThread::sendMessage: dropped unless operational.
sendMessage(isOperational, msg) == IF isOperational THEN <<msg>> ELSE <<>>

\* A heartbeat that is never handed to sendBuffer.
sendHeartbeat_skipped(isOperational) == <<>>

\* sendHeartbeat: one sendBuffer call with the heartbeat indication.
sendHeartbeat(isOperational) == sendMessage(isOperational, HeartbeatMsg)

NoSeen == [kind |-> "none"]

\* No thread other than the connection thread is inside sendMessage.
IdleSender == [pc |-> "idle", s |-> "none", by |-> "none"]

\* The three kinds of thread.
Threads == {"publisher", "connection", "host"}

\* The position before the first node of the map, which is also the id of
\* no object: every key in use is greater.
BeginOid == [epoch |-> 0, key |-> 0]

\* A thread outside every function of the agent: pc is its position, send
\* its position inside sendMessage, kind the message it is sending, ret the
\* position a called function returns to, object the pointer it took from
\* the map (0: none), cursor its map iterator, cls the class a query names,
\* oid the ObjectId a method request names, sent the partial responses it
\* has transferred in the query it handles, todo the messages a pass has yet to
\* send, del the deleteList of a pass, nest whether it held connLock before
\* sendMessage took it, stale whether the node under its iterator was erased.
IdleThread ==
    [pc |-> "idle", send |-> "none", kind |-> "none", ret |-> "idle",
     object |-> 0, cursor |-> BeginOid, cls |-> "", oid |-> BeginOid, sent |-> 0,
     todo |-> 0, del |-> <<>>, nest |-> FALSE, stale |-> FALSE]

\* The host thread is not in pollCallbacks.
PollIdle == [pc |-> "idle", item |-> "", idx |-> 0, limit |-> 0]

\* ------------------------------------------------------------------- Init
\* The state the constructor leaves, the identity file holding file.
\* A constructor that leaves clientWasAdded unset.
clientWasAddedAtStart_unset == FALSE

\* The constructor's initializer clientWasAdded(true).
clientWasAddedAtStart == TRUE

Constructed(file) ==
    /\ storeFile = file
    /\ bootSequence = 0
    /\ initialized = FALSE
    /\ extThread = FALSE
    /\ packages = EmptyMap
    /\ pipeHandle = FALSE
    /\ shutdown = FALSE
    /\ subStop = FALSE
    /\ connOpen = FALSE
    /\ sender = IdleSender
    /\ subscriptions = FALSE
    /\ agentLock = "free"
    /\ addLock = "free"
    /\ connLock = "free"
    /\ threads = [t \in Threads |-> IdleThread]
    /\ pipeBytes = 0
    /\ notifyable = FALSE
    /\ notifyCallback = FALSE
    /\ methodQueue = <<>>
    /\ inCallback = FALSE
    /\ poll = PollIdle
    /\ ctPc = "top"
    /\ delay = delayMin
    /\ totalSleep = 0
    /\ fails = 0
    /\ baseDelay = delayMin
    /\ lastAttempt = "none"
    /\ newManagementObjects = EmptyMap
    /\ managementObjects = EmptyMap
    /\ objs = [o \in Objs |-> NewObject]
    /\ clientWasAdded = clientWasAddedAtStart
    /\ connected = FALSE
    /\ operational = FALSE
    /\ op = "construct"
    /\ out = <<>>
    /\ seen = NoSeen
    /\ locateSeen = FALSE

\* No identity file, or one without the magic number.
NoFile == [valid |-> FALSE, seq |-> 0]

Init == Constructed(NoFile)

\* The identity files a start may find: none, or one holding any 16-bit value.
StoredFiles == {NoFile} \cup {[valid |-> TRUE, seq |-> v] : v \in 0 .. SeqModulus - 1}

InitBoot == \E file \in StoredFiles : Constructed(file)

\* ------------------------------------------------------------ identity store
\* retrieveData: the stored bootSequence, kept only under the magic number.
retrieveData(file, seq) == IF file.valid THEN file.seq ELSE seq

\* The wrap test made on the value read, before the increment.
NextBootSequence_testPrior(seq) ==
    IF seq \div NibbleUnit # 0 THEN 1 ELSE (seq + 1) % SeqModulus

\* init(): bootSequence++ in uint16_t, then the wrap test on the new value.
NextBootSequence(seq) ==
    LET inc == (seq + 1) % SeqModulus
    IN  IF inc \div NibbleUnit # 0 THEN 1 ELSE inc

init(useExternalThread) ==
    /\ ~initialized
    /\ extThread' = useExternalThread
    /\ bootSequence' = NextBootSequence(retrieveData(storeFile, bootSequence))
    /\ storeFile' = [valid |-> TRUE, seq |-> bootSequence']
    /\ initialized' = TRUE
    /\ UNCHANGED lifeVars
    /\ UNCHANGED thrVars
    /\ op' = "init"
    /\ out' = <<>>
    /\ seen' = [kind |-> "init", stored |-> storeFile.valid,
                prior |-> retrieveData(storeFile, bootSequence)]
    /\ UNCHANGED locateSeen
    /\ UNCHANGED <<schemaVars, regVars, linkVars, bridgeVars, connVars>>

\* The process ends and is started again: the destructor deletes every
\* object and the constructor runs; the identity file stays as written.
Restart ==
    /\ initialized
    /\ ctPc \in {"top", "sleeping"}
    /\ poll = PollIdle
    /\ bootSequence' = 0
    /\ initialized' = FALSE
    /\ extThread' = FALSE
    /\ packages' = EmptyMap
    /\ newManagementObjects' = EmptyMap
    /\ managementObjects' = EmptyMap
    /\ objs' = [o \in Objs |-> NewObject]
    /\ clientWasAdded' = clientWasAddedAtStart
    /\ pipeHandle' = FALSE
    /\ pipeBytes' = 0
    /\ notifyable' = FALSE
    /\ notifyCallback' = FALSE
    /\ methodQueue' = <<>>
    /\ inCallback' = FALSE
    /\ ctPc' = "top"
    /\ delay' = delayMin
    /\ totalSleep' = 0
    /\ fails' = 0
    /\ baseDelay' = delayMin
    /\ lastAttempt' = "none"
    /\ shutdown' = FALSE
    /\ subStop' = FALSE
    /\ connOpen' = FALSE
    /\ sender' = IdleSender
    /\ subscriptions' = FALSE
    /\ UNCHANGED thrVars
    /\ op' = "construct"
    /\ out' = <<>>
    /\ seen' = NoSeen
    /\ locateSeen' = FALSE
    /\ UNCHANGED <<storeFile, linkVars, poll>>

\* ----------------------------------------------------------- schema registry
PackageNames == {"P", "Q"}
\* SchemaClassKey: a class name and a 16-byte hash.
SchemaKeys == [name : {"C"}, hash : {1, 2}]
\* The writeSchema callables the host passes.
SchemaCalls == {"w1", "w2"}
ClassKinds == {"TABLE", "EVENT"}

SchemaClass(schemaCall, classKind) ==
    [writeSchemaCall |-> schemaCall, kind |-> classKind]

\* findOrAddPackage: the package map and the package indication sent, which
\* goes out only for a new package and only when connected.
findOrAddPackage(pkgs, name, isConnected, isOperational) ==
    IF name \in DOMAIN pkgs
    THEN [packages |-> pkgs, msgs |-> <<>>]
    ELSE [packages |-> [p \in DOMAIN pkgs \cup {name} |->
                           IF p = name THEN EmptyMap ELSE pkgs[p]],
          msgs |-> IF isConnected
                   THEN sendMessage(isOperational,
                                    Msg("schema.package", FALSE, <<name>>))
                   ELSE <<>>]

\* A class registration that replaces the entry a key already has.
addClassLocal_overwrite(cMap, classKind, key, schemaCall) ==
    [k \in DOMAIN cMap \cup {key} |->
        IF k = key THEN SchemaClass(schemaCall, classKind) ELSE cMap[k]]

\* addClassLocal: returns when the key is found, inserts otherwise.
addClassLocal(cMap, classKind, key, schemaCall) ==
    IF key \in DOMAIN cMap
    THEN cMap
    ELSE [k \in DOMAIN cMap \cup {key} |->
             IF k = key THEN SchemaClass(schemaCall, classKind) ELSE cMap[k]]

\* The common body of registerClass and registerEvent, under agentLock.
Register(label, classKind, packageName, key, schemaCall) ==
    /\ LET r == findOrAddPackage(packages, packageName, connected, operational)
       IN  /\ packages' =
                 [r.packages EXCEPT ![packageName] =
                     addClassLocal(@, classKind, key, schemaCall)]
           /\ out' = r.msgs
    /\ UNCHANGED lifeVars
    /\ UNCHANGED thrVars
    /\ op' = label
    /\ seen' = [kind |-> "register", pkg |-> packageName, key |-> key,
                classKind |-> classKind, call |-> schemaCall]
    /\ UNCHANGED locateSeen
    /\ UNCHANGED <<idVars, regVars, linkVars, bridgeVars, connVars>>

registerClass(packageName, key, schemaCall) ==
    Register("registerClass", "TABLE", packageName, key, schemaCall)

registerEvent(packageName, key, schemaCall) ==
    Register("registerEvent", "EVENT", packageName, key, schemaCall)

\* ---------------------------------------------------------- object registry
\* The epoch addObject gives an object.
AddSequence(persistent, seq) == IF persistent THEN 0 ELSE seq

addObject(o, key, persistent) ==
    /\ objs[o].st = "new"
    /\ LET objectId == ObjectId(AddSequence(persistent, bootSequence),
                                IF key = 0 THEN DerivedKey(o) ELSE key)
       IN  /\ objs' = [objs EXCEPT ![o].st = "registered"]
           /\ newManagementObjects' =
                 [id \in DOMAIN newManagementObjects \cup {objectId} |->
                     IF id = objectId THEN o ELSE newManagementObjects[id]]
           /\ seen' = [kind |-> "add", obj |-> o, oid |-> objectId,
                        persistent |-> persistent]
           /\ UNCHANGED locateSeen
    /\ UNCHANGED lifeVars
    /\ UNCHANGED thrVars
    /\ op' = "addObject"
    /\ out' = <<>>
    /\ UNCHANGED <<idVars, managementObjects, clientWasAdded, linkVars>>
    /\ UNCHANGED <<schemaVars, bridgeVars, connVars>>

\* A merge by map::insert, which keeps the entry an id already has.
moveNewObjectsLH_insert(live, staged) ==
    [id \in DOMAIN live \cup DOMAIN staged |->
        IF id \in DOMAIN live THEN live[id] ELSE staged[id]]

\* moveNewObjectsLH: managementObjects[id] = object for every staged entry.
moveNewObjectsLH(live, staged) ==
    [id \in DOMAIN live \cup DOMAIN staged |->
        IF id \in DOMAIN staged THEN staged[id] ELSE live[id]]

\* The object is staged or live: the agent holds its pointer.
Held(o) ==
    \/ \E id \in DOMAIN newManagementObjects : newManagementObjects[id] = o
    \/ \E id \in DOMAIN managementObjects : managementObjects[id] = o

\* ------------------------------------------------- host-side object changes
\* The host marks a registered object deleted (resourceDestroy).
ObjResourceDestroy(o) ==
    /\ Held(o)
    /\ ~objs[o].deleted
    /\ objs' = [objs EXCEPT ![o].deleted = TRUE]
    /\ UNCHANGED lifeVars
    /\ UNCHANGED thrVars
    /\ op' = "resourceDestroy"
    /\ out' = <<>>
    /\ seen' = NoSeen
    /\ UNCHANGED locateSeen
    /\ UNCHANGED <<idVars, newManagementObjects, managementObjects,
                   clientWasAdded, linkVars>>
    /\ UNCHANGED <<schemaVars, bridgeVars, connVars>>

\* The host changes a property (config) or a statistic (inst) of an object.
ObjChanged(o, config) ==
    /\ Held(o)
    /\ IF config THEN ~objs[o].configChanged ELSE ~objs[o].instChanged
    /\ objs' = IF config THEN [objs EXCEPT ![o].configChanged = TRUE]
                         ELSE [objs EXCEPT ![o].instChanged = TRUE]
    /\ UNCHANGED lifeVars
    /\ UNCHANGED thrVars
    /\ op' = "objChanged"
    /\ out' = <<>>
    /\ seen' = NoSeen
    /\ UNCHANGED locateSeen
    /\ UNCHANGED <<idVars, newManagementObjects, managementObjects,
                   clientWasAdded, linkVars>>
    /\ UNCHANGED <<schemaVars, bridgeVars, connVars>>

\* mapEncodeValues(values, props, stats): writing a part clears its dirty bit.
mapEncodeValues(ob, props, stats) ==
    [ob EXCEPT !.configChanged = IF props THEN FALSE ELSE @,
               !.instChanged = IF stats THEN FALSE ELSE @]

\* --------------------------------------------------------- publication pass
\* The first loop without setForcePublish(true).
ClearFlags_noForce(ob, wasAdded) == ob

\* The first loop of periodicProcessing: setFlags(0) and, when a console was
\* added, setForcePublish(true).  The flags byte is scratch of the pass (it is
\* cleared here and read nowhere else), so it is kept in the pass's own state:
\* s.flagged is the set of objects with flags = 1.
ClearFlags(ob, wasAdded) ==
    [ob EXCEPT !.forcePublish = IF wasAdded THEN TRUE ELSE @]

\* The skip test without its isDeleted term.
SkipBase_noDeleted(ob, flags) ==
    \/ flags = 1
    \/ (~ob.configChanged /\ ~ob.instChanged /\ ~ob.forcePublish)

\* "Skip until we find a base object requiring a sent message."
SkipBase(ob, flags) ==
    \/ flags = 1
    \/ (~ob.configChanged /\ ~ob.instChanged /\ ~ob.forcePublish /\ ~ob.deleted)

\* send_props without its isDeleted term.
send_props_noDeleted(ob) == ob.configChanged \/ ob.forcePublish

\* send_props and send_stats of the inner loop.
send_props(ob) == ob.configChanged \/ ob.forcePublish \/ ob.deleted
send_stats(o, ob) == HasInst(ClassOf(o)) /\ (ob.instChanged \/ ob.forcePublish)

\* The body of the inner loop without setFlags(1).
VisitObject_noFlag(s, id, o) ==
    LET ob == s.objs[o]
        sp == send_props(ob)
        ss == send_stats(o, ob)
        enc == IF sp \/ ss THEN mapEncodeValues(ob, sp, ss) ELSE ob
    IN  [s EXCEPT
            !.objs = [@ EXCEPT ![o] = [enc EXCEPT !.forcePublish = FALSE]],
            !.list = IF sp \/ ss
                     THEN Append(@, [oid |-> id, obj |-> o, props |-> sp, stats |-> ss])
                     ELSE @,
            !.del = IF ob.deleted THEN Append(@, <<id, o>>) ELSE @]

\* The body of the inner loop for an unflagged object of the base's class.
\* s = [objs, flagged, list, del, msgs].
VisitObject(s, id, o) ==
    LET ob == s.objs[o]
        sp == send_props(ob)
        ss == send_stats(o, ob)
        enc == IF sp \/ ss THEN mapEncodeValues(ob, sp, ss) ELSE ob
    IN  [s EXCEPT
            !.flagged = @ \cup {o},
            !.objs = [@ EXCEPT ![o] = [enc EXCEPT !.forcePublish = FALSE]],
            !.list = IF sp \/ ss
                     THEN Append(@, [oid |-> id, obj |-> o, props |-> sp, stats |-> ss])
                     ELSE @,
            !.del = IF ob.deleted THEN Append(@, <<id, o>>) ELSE @]

RECURSIVE InnerLoop(_, _, _, _, _)
InnerLoop(live, order, j, base, s) ==
    IF j > Len(order) THEN s
    ELSE LET o == live[order[j]]
         IN  InnerLoop(live, order, j + 1, base,
                 IF isSameClass(base, o) /\ o \notin s.flagged
                 THEN VisitObject(s, order[j], o)
                 ELSE s)

\* The group's message: sent when the encoded content is not empty.
SendGroup(s, isOperational) ==
    IF Len(ListCodecEncode(s.list)) # 0
    THEN [s EXCEPT !.msgs = @ \o sendMessage(isOperational,
                                    Msg("_data_indication", FALSE, s.list))]
    ELSE s

RECURSIVE OuterLoop(_, _, _, _, _)
OuterLoop(live, order, i, s, isOperational) ==
    IF i > Len(order) THEN s
    ELSE LET base == live[order[i]]
         IN  OuterLoop(live, order, i + 1,
                 IF SkipBase(s.objs[base], IF base \in s.flagged THEN 1 ELSE 0) THEN s
                 ELSE SendGroup(InnerLoop(live, order, i, base, [s EXCEPT !.list = <<>>]),
                                isOperational),
                 isOperational)

\* "Delete flagged objects": delete the object, erase its key.
RECURSIVE ReapObjs(_, _, _)
ReapObjs(obs, del, k) ==
    IF k = 0 THEN obs
    ELSE ReapObjs([obs EXCEPT ![del[k][2]] = DeletedObject], del, k - 1)

ReapLive(live, del) ==
    [id \in DOMAIN live \ {del[k][1] : k \in 1 .. Len(del)} |-> live[id]]

periodicProcessing ==
    /\ UNCHANGED lifeVars
    /\ UNCHANGED thrVars
    /\ op' = "periodicProcessing"
    /\ UNCHANGED <<schemaVars, bridgeVars, connVars>>
    /\ IF ~connected
       THEN /\ out' = <<>>
            /\ seen' = [kind |-> "pass", ran |-> FALSE]
            /\ UNCHANGED <<idVars, regVars, linkVars, locateSeen>>
       ELSE LET live == moveNewObjectsLH(managementObjects, newManagementObjects)
                order == MapOrder(DOMAIN live)
                inLive == {live[id] : id \in DOMAIN live}
                s0 == [objs |-> [o \in DOMAIN objs |->
                                    IF o \in inLive
                                    THEN ClearFlags(objs[o], clientWasAdded)
                                    ELSE objs[o]],
                       flagged |-> {}, list |-> <<>>, del |-> <<>>, msgs |-> <<>>]
                s1 == OuterLoop(live, order, 1, s0, operational)
            IN  /\ newManagementObjects' = EmptyMap
                /\ managementObjects' = ReapLive(live, s1.del)
                /\ objs' = ReapObjs(s1.objs, s1.del, Len(s1.del))
                /\ clientWasAdded' = FALSE
                /\ out' = s1.msgs \o sendHeartbeat(operational)
                /\ seen' = [kind |-> "pass", ran |-> TRUE,
                            merged |-> Cardinality(DOMAIN newManagementObjects),
                            locate |-> locateSeen, client |-> clientWasAdded]
                /\ locateSeen' = FALSE
                /\ UNCHANGED <<idVars, linkVars>>

\* ---------------------------------------------------------- connection thread
\* ConnectionThread::run.  ctPc is the thread's position: "top" at the head of
\* the while loop, "running" inside subscriptions->run(), "inNotify" inside a
\* callback of the bridge made from a handler, "sleeping" in the sleep block,
\* "done" once run() has returned, "joined" once the destructor has joined it.
\* "running" begins where connLock is released for subscriptions->run(): a
\* stop() made from there on is kept by the subscription manager, so run()
\* returns whether it was entered before or after the stop().

\* The catch block without its test against delayMax.
NextDelay_uncapped(d) == d * delayFactor

\* catch (exception&): if (delay < delayMax) delay *= delayFactor.
NextDelay(d) == IF d < delayMax THEN d * delayFactor ELSE d

\* agent.initialized is false: nothing is attempted and the sleep block runs.
ConnSkip ==
    /\ ctPc = "top"
    /\ ~initialized
    /\ ctPc' = "sleeping"
    /\ totalSleep' = 0
    /\ lastAttempt' = "skipped"
    /\ UNCHANGED lifeVars
    /\ UNCHANGED thrVars
    /\ op' = "connSkip"
    /\ out' = <<>>
    /\ seen' = NoSeen
    /\ UNCHANGED <<delay, fails, baseDelay, locateSeen>>
    /\ UNCHANGED <<idVars, schemaVars, regVars, linkVars, bridgeVars>>

\* open, newSession, queueDeclare, exchangeBind or subscribe throws: the catch
\* block runs, then the sleep block.  afterOpen tells whether open() had
\* succeeded: nothing on this path closes the connection.
ConnFailed(afterOpen) ==
    /\ ctPc = "top"
    /\ initialized
    /\ fails < MaxFails
    /\ connOpen' = (connOpen \/ afterOpen)
    /\ subscriptions' = (subscriptions \/ afterOpen)
    /\ UNCHANGED <<shutdown, subStop, sender>>
    /\ delay' = NextDelay(delay)
    /\ fails' = fails + 1
    /\ ctPc' = "sleeping"
    /\ totalSleep' = 0
    /\ lastAttempt' = "failed"
    /\ UNCHANGED thrVars
    /\ op' = "connFailed"
    /\ out' = <<>>
    /\ seen' = [kind |-> "attempt", opened |-> afterOpen, ended |-> "threw"]
    /\ UNCHANGED <<baseDelay, locateSeen>>
    /\ UNCHANGED <<idVars, schemaVars, regVars, linkVars, bridgeVars>>

\* The attempt succeeds up to subscribe.  Under connLock: when shutdown is
\* set run() returns, with the connection left open; otherwise operational,
\* connected, startProtocol's heartbeat, and the thread releases connLock
\* for subscriptions->run().
ConnEstablished ==
    /\ ctPc = "top"
    /\ initialized
    /\ connOpen' = TRUE
    /\ subscriptions' = TRUE
    /\ subStop' = FALSE
    /\ IF shutdown
       THEN /\ ctPc' = "done"
            /\ out' = <<>>
            /\ seen' = [kind |-> "attempt", opened |-> TRUE, ended |-> "returned"]
            /\ UNCHANGED linkVars
       ELSE /\ operational' = TRUE
            /\ connected' = TRUE
            /\ ctPc' = "running"
            /\ out' = sendHeartbeat(TRUE)
            /\ seen' = NoSeen
    /\ UNCHANGED thrVars
    /\ op' = "connected"
    /\ UNCHANGED <<shutdown, sender>>
    /\ UNCHANGED <<delay, totalSleep, fails, baseDelay, lastAttempt, locateSeen>>
    /\ UNCHANGED <<idVars, schemaVars, regVars, bridgeVars>>

\* subscriptions->run() returned or threw (the inner catch swallows it):
\* operational and connected are cleared, delay = delayMin, and
\* connection.close() runs inside the try block; when it throws the catch
\* block runs.  Then the sleep block.  The subscription manager is dropped:
\* a handle a sender took under connLock now names the old manager.
ConnLost(closeThrows) ==
    /\ ctPc = "running"
    /\ operational' = FALSE
    /\ connected' = FALSE
    /\ connOpen' = FALSE
    /\ subscriptions' = FALSE
    /\ subStop' = FALSE
    /\ sender' = IF sender.pc = "checked" THEN [sender EXCEPT !.s = "old"]
                 ELSE sender
    /\ UNCHANGED shutdown
    /\ delay' = IF closeThrows THEN NextDelay(delayMin) ELSE delayMin
    /\ fails' = 0
    /\ baseDelay' = delay'
    /\ ctPc' = "sleeping"
    /\ totalSleep' = 0
    /\ lastAttempt' = IF closeThrows THEN "ranCloseThrew" ELSE "ran"
    /\ UNCHANGED thrVars
    /\ op' = "disconnected"
    /\ out' = <<>>
    /\ seen' = NoSeen
    /\ UNCHANGED locateSeen
    /\ UNCHANGED <<idVars, schemaVars, regVars, bridgeVars>>

\* The sleep block.  With shutdown set, run() returns: at the head of the
\* block before any sleep, or after the nap in progress.  Otherwise one
\* iteration of the sleep loop: ::sleep(delayMin), totalSleep += delayMin,
\* while (totalSleep < delay && !shutdown).  The iteration that ends the
\* loop returns the thread to the head of the while loop.
ConnSleep ==
    /\ ctPc = "sleeping"
    /\ UNCHANGED lifeVars
    /\ LET t == totalSleep + delayMin
       IN  IF shutdown
           THEN /\ totalSleep' = 0
                /\ ctPc' = "done"
                /\ seen' = NoSeen
                /\ UNCHANGED lastAttempt
           ELSE IF t < delay
           THEN /\ totalSleep' = t
                /\ seen' = NoSeen
                /\ UNCHANGED <<ctPc, lastAttempt>>
           ELSE /\ totalSleep' = 0
                /\ ctPc' = "top"
                /\ lastAttempt' = "none"
                /\ seen' = [kind |-> "slept", secs |-> t, after |-> lastAttempt,
                            fails |-> fails, base |-> baseDelay]
    /\ UNCHANGED thrVars
    /\ op' = "connSleep"
    /\ out' = <<>>
    /\ UNCHANGED <<delay, fails, baseDelay, locateSeen>>
    /\ UNCHANGED <<idVars, schemaVars, regVars, linkVars, bridgeVars>>

\* The two halves of ConnLost, for specifications in which another thread
\* is inside sendMessage.  RunReturned: subscriptions->run() returned or
\* threw and, under connLock, operational and connected are cleared and the
\* subscription manager is dropped; the connection is still open.
RunReturned ==
    /\ ctPc = "running"
    /\ operational' = FALSE
    /\ connected' = FALSE
    /\ subscriptions' = FALSE
    /\ subStop' = FALSE
    /\ sender' = IF sender.pc = "checked" THEN [sender EXCEPT !.s = "old"]
                 ELSE sender
    /\ ctPc' = "closing"
    /\ UNCHANGED thrVars
    /\ op' = "runReturned"
    /\ out' = <<>>
    /\ seen' = NoSeen
    /\ UNCHANGED <<shutdown, connOpen>>
    /\ UNCHANGED <<delay, totalSleep, fails, baseDelay, lastAttempt, locateSeen>>
    /\ UNCHANGED <<idVars, schemaVars, regVars, bridgeVars>>

\* ConnClose: delay = delayMin and connection.close(), then the sleep block.
ConnClose(closeThrows) ==
    /\ ctPc = "closing"
    /\ connOpen' = FALSE
    /\ delay' = IF closeThrows THEN NextDelay(delayMin) ELSE delayMin
    /\ fails' = 0
    /\ baseDelay' = delay'
    /\ ctPc' = "sleeping"
    /\ totalSleep' = 0
    /\ lastAttempt' = IF closeThrows THEN "ranCloseThrew" ELSE "ran"
    /\ UNCHANGED thrVars
    /\ op' = "disconnected"
    /\ out' = <<>>
    /\ seen' = NoSeen
    /\ UNCHANGED <<shutdown, subStop, sender, subscriptions, locateSeen>>
    /\ UNCHANGED <<idVars, schemaVars, regVars, linkVars, bridgeVars>>

\* ConnectionThread::close that sets shutdown and stops nothing.
close_noStop ==
    /\ ~shutdown
    /\ ctPc # "joined"
    /\ shutdown' = TRUE
    /\ subStop' = subStop
    /\ UNCHANGED thrVars
    /\ op' = "close"
    /\ out' = <<>>
    /\ seen' = [kind |-> "close", at |-> ctPc]
    /\ UNCHANGED <<connOpen, sender, subscriptions, locateSeen>>
    /\ UNCHANGED <<idVars, schemaVars, regVars, linkVars, bridgeVars, connVars>>

\* ConnectionThread::close: shutdown is set under connLock and stop() is
\* called on the subscription manager the thread holds.  Only the manager of
\* a subscription run in progress matters: stop() on one of an attempt still
\* under way or already failed has no effect the thread reads.
close ==
    /\ ~shutdown
    /\ ctPc # "joined"
    /\ shutdown' = TRUE
    /\ subStop' = (subStop \/ ctPc \in {"running", "inNotify"})
    /\ UNCHANGED thrVars
    /\ op' = "close"
    /\ out' = <<>>
    /\ seen' = [kind |-> "close", at |-> ctPc]
    /\ UNCHANGED <<connOpen, sender, subscriptions, locateSeen>>
    /\ UNCHANGED <<idVars, schemaVars, regVars, linkVars, bridgeVars, connVars>>

\* run() of a stopped subscription manager returns.
RunStopped == subStop /\ RunReturned

\* ~ManagementAgentImpl after its close() calls, once the joins have
\* returned: the staged objects are merged, every object of
\* managementObjects is deleted, the map is cleared, the pipe is deleted.
destructor ==
    /\ shutdown
    /\ ctPc = "done"
    /\ LET live == moveNewObjectsLH(managementObjects, newManagementObjects)
           inLive == {live[id] : id \in DOMAIN live}
       IN  /\ objs' = [o \in Objs |-> IF o \in inLive THEN DeletedObject ELSE objs[o]]
           /\ seen' = [kind |-> "teardown", deleted |-> inLive,
                       replaced |-> {managementObjects[id] :
                                        id \in DOMAIN managementObjects} \ inLive]
    /\ newManagementObjects' = EmptyMap
    /\ managementObjects' = EmptyMap
    /\ pipeHandle' = FALSE
    /\ ctPc' = "joined"
    /\ UNCHANGED thrVars
    /\ op' = "destructor"
    /\ out' = <<>>
    /\ UNCHANGED <<lifeVars, locateSeen, clientWasAdded>>
    /\ UNCHANGED <<idVars, schemaVars, linkVars>>
    /\ UNCHANGED <<pipeBytes, notifyable, notifyCallback, methodQueue, inCallback, poll>>
    /\ UNCHANGED <<delay, totalSleep, fails, baseDelay, lastAttempt>>

\* ------------------------------------------------------------ sendMessage
\* sendMessage called by a thread other than the connection thread (the
\* publisher from a pass, the host from pollCallbacks), in its two steps.
\* The handlers above take both steps at once: the connection thread sends
\* from inside subscriptions->run(), where operational cannot change.
Senders == {"publisher", "host"}

\* Step 1, under connLock: return when operational is false, else take the
\* subscription handle.
SendCheck(thread) ==
    /\ sender.pc = "idle"
    /\ ctPc # "joined"
    /\ sender' = IF operational
                 THEN [pc |-> "checked", s |-> "current", by |-> thread]
                 ELSE IdleSender
    /\ UNCHANGED thrVars
    /\ op' = "sendCheck"
    /\ out' = <<>>
    /\ seen' = [kind |-> "send", by |-> thread, step |-> "check",
                dropped |-> ~operational, threw |-> FALSE, stopped |-> FALSE]
    /\ UNCHANGED <<shutdown, subStop, connOpen, subscriptions, locateSeen>>
    /\ UNCHANGED <<idVars, schemaVars, regVars, linkVars, bridgeVars, connVars>>

\* Step 2, connLock released: session.messageTransfer, which succeeds only on
\* an open connection; when it throws, stop() on the handle taken in step 1,
\* which is the manager the connection thread runs only if the thread has not
\* dropped it since.
SendTransfer(throws) ==
    /\ sender.pc = "checked"
    /\ ~throws => connOpen
    /\ out' = IF throws THEN <<>> ELSE <<HeartbeatMsg>>
    /\ subStop' = (subStop \/ (throws /\ sender.s = "current"))
    /\ sender' = IdleSender
    /\ UNCHANGED thrVars
    /\ op' = "sendTransfer"
    /\ seen' = [kind |-> "send", by |-> sender.by, step |-> "transfer",
                dropped |-> FALSE, threw |-> throws,
                stopped |-> (throws /\ sender.s = "current")]
    /\ UNCHANGED <<shutdown, connOpen, subscriptions, locateSeen>>
    /\ UNCHANGED <<idVars, schemaVars, regVars, linkVars, bridgeVars, connVars>>

\* ---------------------------------------------------------- inbound handlers
\* Messages are delivered by subscriptions->run(), which executes only while
\* the connection thread is operational.
Receiving == ctPc = "running"

handleLocateRequest ==
    /\ Receiving
    /\ clientWasAdded' = TRUE
    /\ UNCHANGED lifeVars
    /\ UNCHANGED thrVars
    /\ op' = "handleLocateRequest"
    /\ out' = sendMessage(operational, Msg("_agent_locate_response", FALSE, <<>>))
    /\ seen' = NoSeen
    /\ locateSeen' = TRUE
    /\ UNCHANGED <<idVars, newManagementObjects, managementObjects, objs, linkVars>>
    /\ UNCHANGED <<schemaVars, bridgeVars, connVars>>

handleConsoleAddedIndication ==
    /\ Receiving
    /\ clientWasAdded' = TRUE
    /\ UNCHANGED lifeVars
    /\ UNCHANGED thrVars
    /\ op' = "handleConsoleAddedIndication"
    /\ out' = <<>>
    /\ seen' = NoSeen
    /\ UNCHANGED locateSeen
    /\ UNCHANGED <<idVars, newManagementObjects, managementObjects, objs, linkVars>>
    /\ UNCHANGED <<schemaVars, bridgeVars, connVars>>

\* The ObjectIds a console may name.
Epochs == {0, bootSequence}
Oids == {ObjectId(e, k) : e \in Epochs, k \in Keys}
NoOid == ObjectId(0, 0)

\* The decoded body of a _query_request: _what ("missing" when absent,
\* "nonstring" when not a string), _object_id (NoOid when absent), and the
\* _class_name / _package_name of _schema_id ("" when absent).  An _object_id
\* that is not a map is treated by the handler as an absent one.
Queries ==
    [what : {"missing", "nonstring", "SCHEMA"}, oid : {NoOid}, cls : {""}, pkg : {""}]
    \cup [what : {"OBJECT"}, oid : Oids, cls : {""}, pkg : {""}]
    \cup [what : {"OBJECT"}, oid : {NoOid}, cls : Classes, pkg : {"", "P"}]

\* The query-by-id branch without headers.erase("partial").
QueryById_partial(live, obs, q) ==
    LET o == live[q.oid]
    IN  [objs |-> [obs EXCEPT ![o] = mapEncodeValues(@, TRUE, TRUE)],
         msgs |-> <<Msg("_query_response", TRUE,
                        <<[oid |-> q.oid, obj |-> o, props |-> TRUE, stats |-> TRUE]>>)>>]

\* The query-by-id branch (lines 595-622): one non-partial single-element
\* response and return.
QueryById(live, obs, q) ==
    LET o == live[q.oid]
    IN  [objs |-> [obs EXCEPT ![o] = mapEncodeValues(@, TRUE, TRUE)],
         msgs |-> <<Msg("_query_response", FALSE,
                        <<[oid |-> q.oid, obj |-> o, props |-> TRUE, stats |-> TRUE]>>)>>]

\* The class-based loop (lines 624-653): one partial single-element response
\* per matching object, in map order.
\* The class test alone, without the package.
QueryMatches_classOnly(o, q) == ClassOf(o) = q.cls

\* getClassName() == className &&
\* (packageName.empty() || getPackageName() == packageName)
QueryMatches(o, q) ==
    /\ ClassOf(o) = q.cls
    /\ (q.pkg = "" \/ PackageOf(ClassOf(o)) = q.pkg)

RECURSIVE QueryByClass(_, _, _, _, _)
QueryByClass(live, order, j, q, r) ==
    IF j > Len(order) THEN r
    ELSE LET o == live[order[j]]
             match == QueryMatches(o, q)
         IN  QueryByClass(live, order, j + 1, q,
                 IF match
                 THEN [objs |-> [r.objs EXCEPT ![o] = mapEncodeValues(@, TRUE, TRUE)],
                       msgs |-> Append(r.msgs,
                                   Msg("_query_response", TRUE,
                                       <<[oid |-> order[j], obj |-> o,
                                          props |-> TRUE, stats |-> TRUE]>>))]
                 ELSE r)

\* "end empty non-partial message to indicate CommandComplete"
QueryComplete == Msg("_query_response", FALSE, <<>>)

\* The responses with the empty list sent after the by-id response too.
QueryResponses_terminated(live, obs, q) ==
    IF q.what # "OBJECT"
    THEN [objs |-> obs, msgs |-> <<Msg("_exception", FALSE, <<>>)>>]
    ELSE LET r == IF q.oid # NoOid
                  THEN IF q.oid \in DOMAIN live
                       THEN QueryById(live, obs, q)
                       ELSE [objs |-> obs, msgs |-> <<>>]
                  ELSE QueryByClass(live, MapOrder(DOMAIN live), 1, q,
                                    [objs |-> obs, msgs |-> <<>>])
         IN  [r EXCEPT !.msgs = Append(@, QueryComplete)]

\* The responses of handleGetQuery after the merge: [objs, msgs].
QueryResponses(live, obs, q) ==
    IF q.what # "OBJECT"
    THEN [objs |-> obs, msgs |-> <<Msg("_exception", FALSE, <<>>)>>]
    ELSE IF q.oid # NoOid
    THEN IF q.oid \in DOMAIN live
         THEN QueryById(live, obs, q)
         ELSE [objs |-> obs, msgs |-> <<QueryComplete>>]
    ELSE LET r == QueryByClass(live, MapOrder(DOMAIN live), 1, q,
                               [objs |-> obs, msgs |-> <<>>])
         IN  [r EXCEPT !.msgs = Append(@, QueryComplete)]

\* Every OBJECT query: by each id, and by each class name (none given
\* included) with each package name (none given included).
ObjectQueries ==
    [what : {"OBJECT"}, oid : Oids, cls : {""}, pkg : {""}]
    \cup [what : {"OBJECT"}, oid : {NoOid}, cls : Classes \cup {""},
          pkg : {"", "P", "Q"}]

RECURSIVE sendAll(_, _)
sendAll(isOperational, msgs) ==
    IF msgs = <<>> THEN <<>>
    ELSE sendMessage(isOperational, Head(msgs)) \o sendAll(isOperational, Tail(msgs))

handleGetQuery(q) ==
    /\ Receiving
    /\ LET live == moveNewObjectsLH(managementObjects, newManagementObjects)
           r == QueryResponses(live, objs, q)
       IN  /\ managementObjects' = live
           /\ newManagementObjects' = EmptyMap
           /\ objs' = r.objs
           /\ out' = sendAll(operational, r.msgs)
    /\ UNCHANGED lifeVars
    /\ UNCHANGED thrVars
    /\ op' = "handleGetQuery"
    /\ seen' = [kind |-> "query", q |-> q,
                merged |-> Cardinality(DOMAIN newManagementObjects)]
    /\ UNCHANGED locateSeen
    /\ UNCHANGED <<idVars, clientWasAdded, linkVars>>
    /\ UNCHANGED <<schemaVars, bridgeVars, connVars>>

\* ------------------------------------------------------ external-thread bridge
\* The methods a console names, and the call map doMethod of the host's
\* objects leaves for each: "ping" sets _status_code 0 and a result, "fail"
\* sets a nonzero _status_code and a text, "mute" sets no _status_code.
Methods == {"ping", "fail", "mute"}
doMethod(methodName) ==
    CASE methodName = "ping" ->
            [hasStatus |-> TRUE, code |-> "0", text |-> "OK", keys |-> {"echo"}]
      [] methodName = "fail" ->
            [hasStatus |-> TRUE, code |-> "1", text |-> "failed", keys |-> {"detail"}]
      [] OTHER ->
            [hasStatus |-> FALSE, code |-> "", text |-> "", keys |-> {"echo"}]

\* The body of a _method_request.  form tells what the map holds: "ok",
\* "noObjectId" (_object_id absent), "noMethodName" (_method_name absent),
\* "badObjectId" (_object_id is not a map); oid is the ObjectId of an "ok"
\* body.
Request(id, form, oid, method) ==
    [id |-> id, form |-> form, oid |-> oid, method |-> method]

\* The requests of the bridge: one without _object_id, one that names an
\* ObjectId.
MethodRequests ==
    {Request("m1", "noObjectId", NoOid, "ping"),
     Request("m2", "ok", ObjectId(0, 1), "ping")}

\* Every shape of request; of the ObjectIds named, the one with key 2 is
\* never registered.
AllMethodRequests ==
    {Request("m1", form, NoOid, "ping") :
        form \in {"noObjectId", "noMethodName", "badObjectId"}}
    \cup {Request("m1", "ok", ObjectId(bootSequence, 1), m) : m \in Methods}
    \cup {Request("m1", "ok", ObjectId(bootSequence, 2), "ping")}

\* The requests left in the queue for the host thread's poll: one on the
\* registered ObjectId, one on the other.
PolledMethodRequests ==
    {Request("m1", "ok", ObjectId(bootSequence, 1), "fail"),
     Request("m1", "ok", ObjectId(bootSequence, 2), "ping")}

\* callMap["_status_code"].asUint32() on an entry that was never set: the
\* conversion of a void Variant, which throws InvalidConversion or yields 0.
VoidAsUint32 == {"throws", "zero"}

\* The outbound map and opcode handed to sendBuffer: _values as its status
\* pair (code "" for an empty _values), _arguments as the set of its keys
\* when present.
Reply(opcode, req, code, text, hasArguments, arguments) ==
    Msg(opcode, FALSE,
        <<[cid |-> req.id, code |-> code, text |-> text,
           hasArguments |-> hasArguments, arguments |-> arguments]>>)

\* The catch of InvalidConversion: outMap cleared, STATUS_EXCEPTION.
ExceptionReply(req) == Reply("_exception", req, "EXCEPTION", "what", FALSE, {})

\* The test of callMap["_status_code"] with every key of the call map copied
\* into _arguments, the status pair included.
StatusTest_copyAll(req, unknown, callMap, v) ==
    IF ~callMap.hasStatus
    THEN IF v = "throws" THEN ExceptionReply(req)
         ELSE IF unknown
         THEN Reply("_exception", req, "UNKNOWN_OBJECT", "UnknownObject",
                    TRUE, callMap.keys)
         ELSE Reply("_method_response", req, "", "", TRUE, callMap.keys)
    ELSE IF callMap.code = "0"
    THEN Reply("_method_response", req, "", "", TRUE,
               callMap.keys \cup {"_status_code", "_status_text"})
    ELSE Reply("_exception", req, callMap.code, callMap.text, FALSE, {})

\* The test of callMap["_status_code"], reached whether or not
\* the object was found; callMap is empty when doMethod was not called, and v
\* is the outcome of converting an entry that was never set.
StatusTest(req, unknown, callMap, v) ==
    IF ~callMap.hasStatus
    THEN IF v = "throws" THEN ExceptionReply(req)
         ELSE IF unknown
         THEN Reply("_exception", req, "UNKNOWN_OBJECT", "UnknownObject",
                    TRUE, callMap.keys)
         ELSE Reply("_method_response", req, "", "", TRUE, callMap.keys)
    ELSE IF callMap.code = "0"
    THEN Reply("_method_response", req, "", "", TRUE, callMap.keys)
    ELSE Reply("_exception", req, callMap.code, callMap.text, FALSE, {})

EmptyCallMap == [hasStatus |-> FALSE, code |-> "", text |-> "", keys |-> {}]

\* invokeMethodRequest: the outcomes it can have, each the one message it
\* hands to sendBuffer and the set of objects whose doMethod it called.  It
\* reads managementObjects as it is: the staged objects are not merged.
invokeMethodRequest(live, obs, req) ==
    IF req.form \in {"noObjectId", "noMethodName"}
    THEN {[resp |-> Reply("_exception", req, "PARAMETER_INVALID",
                          "InvalidParameter", FALSE, {}),
           called |-> {}]}
    ELSE IF req.form = "badObjectId"
    THEN {[resp |-> ExceptionReply(req), called |-> {}]}
    ELSE IF req.oid \notin DOMAIN live \/ obs[live[req.oid]].deleted
    THEN {[resp |-> StatusTest(req, TRUE, EmptyCallMap, v), called |-> {}] :
             v \in VoidAsUint32}
    ELSE {[resp |-> StatusTest(req, FALSE, doMethod(req.method), v),
           called |-> {live[req.oid]}] : v \in VoidAsUint32}

\* What an action that invoked a method records, and what the others do.
Invoked(req, r) == [done |-> TRUE, req |-> req, resp |-> r.resp, called |-> r.called]
NoInvoke == [done |-> FALSE]

\* getSignalFd: creates the pipe on first use in external-thread mode.
getSignalFd ==
    /\ pipeHandle' = (extThread \/ pipeHandle)
    /\ UNCHANGED lifeVars
    /\ UNCHANGED thrVars
    /\ op' = "getSignalFd"
    /\ out' = <<>>
    /\ seen' = [kind |-> "fd", valid |-> extThread]
    /\ UNCHANGED <<pipeBytes, notifyable, notifyCallback, methodQueue, inCallback,
                   poll, locateSeen>>
    /\ UNCHANGED <<idVars, schemaVars, regVars, linkVars, connVars>>

\* setSignalCallback(cb_t, void*): callback may be null.
setSignalCallback(callback) ==
    /\ notifyCallback' = callback
    /\ UNCHANGED lifeVars
    /\ UNCHANGED thrVars
    /\ op' = "setSignalCallback"
    /\ out' = <<>>
    /\ seen' = NoSeen
    /\ UNCHANGED <<pipeHandle, pipeBytes, notifyable, methodQueue, inCallback,
                   poll, locateSeen>>
    /\ UNCHANGED <<idVars, schemaVars, regVars, linkVars, connVars>>

\* setSignalCallback(Notifyable&).
setSignalNotifyable ==
    /\ notifyable' = TRUE
    /\ UNCHANGED lifeVars
    /\ UNCHANGED thrVars
    /\ op' = "setSignalNotifyable"
    /\ out' = <<>>
    /\ seen' = NoSeen
    /\ UNCHANGED <<pipeHandle, pipeBytes, notifyCallback, methodQueue, inCallback,
                   poll, locateSeen>>
    /\ UNCHANGED <<idVars, schemaVars, regVars, linkVars, connVars>>

\* handleMethodRequest, on the connection thread.  In external-thread mode the
\* request is queued and the host is signalled: a byte on the pipe, or a call
\* of notify() or of the callback made with inCallback set and agentLock
\* released, which leaves the thread "inNotify".  Otherwise the method is
\* invoked inline.
handleMethodRequest(req) ==
    /\ Receiving
    /\ IF extThread
       THEN /\ Len(methodQueue) < MaxQueue
            /\ pipeHandle => pipeBytes < MaxPipe
            /\ methodQueue' = Append(methodQueue, req)
            /\ pipeBytes' = IF pipeHandle THEN pipeBytes + 1 ELSE pipeBytes
            /\ inCallback' = IF ~pipeHandle /\ (notifyable \/ notifyCallback)
                             THEN TRUE ELSE inCallback
            /\ ctPc' = IF ~pipeHandle /\ (notifyable \/ notifyCallback)
                       THEN "inNotify" ELSE ctPc
            /\ out' = <<>>
            /\ seen' = [kind |-> "method", req |-> req, inv |-> NoInvoke]
       ELSE /\ \E r \in invokeMethodRequest(managementObjects, objs, req) :
                  /\ out' = sendMessage(operational, r.resp)
                  /\ seen' = [kind |-> "method", req |-> req,
                              inv |-> Invoked(req, r)]
            /\ UNCHANGED <<methodQueue, pipeBytes, inCallback, ctPc>>
    /\ UNCHANGED lifeVars
    /\ UNCHANGED thrVars
    /\ op' = "handleMethodRequest"
    /\ UNCHANGED <<pipeHandle, notifyable, notifyCallback, poll, locateSeen>>
    /\ UNCHANGED <<delay, totalSleep, fails, baseDelay, lastAttempt>>
    /\ UNCHANGED <<idVars, schemaVars, regVars, linkVars>>

\* notify() or the callback returns: agentLock is taken again and inCallback
\* is cleared.
NotifyReturn ==
    /\ ctPc = "inNotify"
    /\ inCallback' = FALSE
    /\ ctPc' = "running"
    /\ UNCHANGED lifeVars
    /\ UNCHANGED thrVars
    /\ op' = "notifyReturn"
    /\ out' = <<>>
    /\ seen' = NoSeen
    /\ UNCHANGED <<pipeHandle, pipeBytes, notifyable, notifyCallback, methodQueue,
                   poll, locateSeen>>
    /\ UNCHANGED <<delay, totalSleep, fails, baseDelay, lastAttempt>>
    /\ UNCHANGED <<idVars, schemaVars, regVars, linkVars>>

\* The head of the loop of pollCallbacks, under agentLock, at index idx: the
\* front item is popped and agentLock released for its invocation, or the
\* loop ends, the pipe is drained and the queue's size returned.  The index
\* is read only under a nonzero callLimit and is kept only then.
PollLoop(caller, idx, callLimit, inv) ==
    IF (callLimit = 0 \/ idx < callLimit) /\ methodQueue # <<>>
    THEN /\ methodQueue' = Tail(methodQueue)
         /\ poll' = [pc |-> "invoking", item |-> Head(methodQueue),
                     idx |-> IF callLimit = 0 THEN 0 ELSE idx,
                     limit |-> callLimit]
         /\ seen' = [kind |-> "poll", caller |-> caller, refused |-> FALSE,
                     done |-> FALSE, ret |-> 0, inv |-> inv,
                     limit |-> callLimit, calls |-> idx]
         /\ UNCHANGED pipeBytes
    ELSE /\ poll' = PollIdle
         /\ pipeBytes' = 0
         /\ seen' = [kind |-> "poll", caller |-> caller, refused |-> FALSE,
                     done |-> TRUE, ret |-> Len(methodQueue), inv |-> inv,
                     limit |-> callLimit, calls |-> idx]
         /\ UNCHANGED methodQueue

\* pollCallbacks entered by the host thread, or by the connection thread from
\* inside notify() or the callback.
pollCallbacks(caller, callLimit) ==
    /\ IF caller = "callback" THEN ctPc = "inNotify" ELSE poll.pc = "idle"
    /\ IF inCallback
       THEN /\ seen' = [kind |-> "poll", caller |-> caller, refused |-> TRUE,
                        done |-> TRUE, ret |-> 0, inv |-> NoInvoke,
                        limit |-> callLimit, calls |-> 0]
            /\ UNCHANGED <<methodQueue, poll, pipeBytes>>
       ELSE PollLoop(caller, 0, callLimit, NoInvoke)
    /\ UNCHANGED lifeVars
    /\ UNCHANGED thrVars
    /\ op' = "pollCallbacks"
    /\ out' = <<>>
    /\ UNCHANGED <<pipeHandle, notifyable, notifyCallback, inCallback, locateSeen>>
    /\ UNCHANGED <<idVars, schemaVars, regVars, linkVars, connVars>>

\* The invocation made by pollCallbacks returns, agentLock is taken again and
\* the loop continues.
PollInvokeReturn ==
    /\ poll.pc = "invoking"
    /\ \E r \in invokeMethodRequest(managementObjects, objs, poll.item) :
          /\ out' = sendMessage(operational, r.resp)
          /\ PollLoop("host", poll.idx + 1, poll.limit, Invoked(poll.item, r))
    /\ UNCHANGED lifeVars
    /\ UNCHANGED thrVars
    /\ op' = "pollInvokeReturn"
    /\ UNCHANGED <<pipeHandle, notifyable, notifyCallback, inCallback, locateSeen>>
    /\ UNCHANGED <<idVars, schemaVars, regVars, linkVars, connVars>>

\* ------------------------------------------------------------------ threads
\* The publisher thread, the connection thread and a host thread statement
\* by statement: every acquisition and release of agentLock, addLock and
\* connLock is a step or the end of one, and so is every call of
\* messageTransfer, doMethod and mapEncodeValues.  A thread that has used a
\* deleted object or a map iterator whose node was erased is "undefined":
\* nothing is said of what it does next.

\* Thread t is at position pos of its code, outside sendMessage.
At(t, pos) == threads[t].pc = pos /\ threads[t].send = "none"

Goto(t, rec) == threads' = [threads EXCEPT ![t] = rec]

\* What no step of a thread changes.
ThreadFrame(name) ==
    /\ op' = name
    /\ out' = <<>>
    /\ seen' = NoSeen
    /\ UNCHANGED <<locateSeen, idVars, schemaVars, connVars>>
    /\ UNCHANGED <<poll, sender, shutdown, subStop, notifyable, notifyCallback,
                   pipeHandle>>

\* The end of a ScopedLock block on connLock that leaves the mutex held.
ScopedLockEnd_held(t, nest) == t

\* The end of a ScopedLock block on connLock.  The mutex is recursive: the
\* connection thread, which holds it around startProtocol, keeps it.
ScopedLockEnd(t, nest) == IF nest THEN t ELSE "free"

\* A ScopedUnlock that leaves the mutex with its owner.
ScopedUnlock_held(owner) == owner

\* sys::Mutex::ScopedUnlock: the mutex is released for the block.
ScopedUnlock(owner) == "free"

\* A call of sendBuffer / sendMessage that returns to position pos.
CallSend(rec, kind, pos) ==
    [rec EXCEPT !.send = "enter", !.kind = kind, !.pc = pos]

\* sendMessage takes connLock.
SendEnter(t) ==
    /\ threads[t].send = "enter"
    /\ connLock \in {"free", t}
    /\ connLock' = t
    /\ Goto(t, [threads[t] EXCEPT !.send = "locked", !.nest = (connLock = t)])
    /\ ThreadFrame("sendMessage")
    /\ UNCHANGED <<agentLock, addLock>>
    /\ UNCHANGED <<regVars, linkVars, subscriptions, connOpen>>
    /\ UNCHANGED <<methodQueue, inCallback, pipeBytes>>

\* Under connLock: return when operational is false, else copy the handle;
\* the block ends.
SendChecked(t) ==
    /\ threads[t].send = "locked"
    /\ connLock' = ScopedLockEnd(t, threads[t].nest)
    /\ Goto(t, [threads[t] EXCEPT
                   !.send = IF operational THEN "transfer" ELSE "none",
                   !.nest = FALSE])
    /\ ThreadFrame("sendChecked")
    /\ UNCHANGED <<agentLock, addLock>>
    /\ UNCHANGED <<regVars, linkVars, subscriptions, connOpen>>
    /\ UNCHANGED <<methodQueue, inCallback, pipeBytes>>

\* session.messageTransfer, which succeeds only on an open connection.  The
\* stop() of the catch block is not followed here: the subscription run may
\* return at any time.
MessageTransfer(t, throws) ==
    /\ threads[t].send = "transfer"
    /\ ~throws => connOpen
    /\ Goto(t, [threads[t] EXCEPT
                   !.send = "none",
                   !.sent = IF ~throws /\ threads[t].kind = "query_partial"
                            THEN @ + 1 ELSE @])
    /\ op' = "messageTransfer"
    /\ out' = IF throws THEN <<>>
              ELSE <<Msg(threads[t].kind, threads[t].kind = "query_partial", <<>>)>>
    /\ seen' = [kind |-> "transfer", by |-> t, threw |-> throws,
                nth |-> threads[t].sent]
    /\ UNCHANGED <<locateSeen, idVars, schemaVars, connVars>>
    /\ UNCHANGED <<poll, sender, shutdown, subStop, notifyable, notifyCallback,
                   pipeHandle>>
    /\ UNCHANGED <<agentLock, addLock, connLock>>
    /\ UNCHANGED <<regVars, linkVars, subscriptions, connOpen>>
    /\ UNCHANGED <<methodQueue, inCallback, pipeBytes>>

\* moveNewObjectsLH takes addLock.
MoveLock(t) ==
    /\ At(t, "moveNewObjectsLH")
    /\ addLock = "free"
    /\ addLock' = t
    /\ Goto(t, [threads[t] EXCEPT !.pc = "moving"])
    /\ ThreadFrame("moveLock")
    /\ UNCHANGED <<agentLock, connLock>>
    /\ UNCHANGED <<regVars, linkVars, subscriptions, connOpen>>
    /\ UNCHANGED <<methodQueue, inCallback, pipeBytes>>

\* moveNewObjectsLH under addLock: the staged entries are written into
\* managementObjects, the staging map is cleared, addLock is released.
MoveNew(t) ==
    /\ At(t, "moving")
    /\ managementObjects' = moveNewObjectsLH(managementObjects, newManagementObjects)
    /\ newManagementObjects' = EmptyMap
    /\ addLock' = "free"
    /\ Goto(t, [threads[t] EXCEPT !.pc = threads[t].ret])
    /\ ThreadFrame("moveNew")
    /\ UNCHANGED <<agentLock, connLock>>
    /\ UNCHANGED <<objs, clientWasAdded, linkVars, subscriptions, connOpen>>
    /\ UNCHANGED <<methodQueue, inCallback, pipeBytes>>

\* periodicProcessing takes agentLock.
PublisherLock ==
    /\ At("publisher", "idle")
    /\ agentLock = "free"
    /\ agentLock' = "publisher"
    /\ Goto("publisher", [threads["publisher"] EXCEPT !.pc = "locked", !.sent = 0])
    /\ ThreadFrame("publisherLock")
    /\ UNCHANGED <<addLock, connLock>>
    /\ UNCHANGED <<regVars, linkVars, subscriptions, connOpen>>
    /\ UNCHANGED <<methodQueue, inCallback, pipeBytes>>

\* "if (!connected) return", else the call of moveNewObjectsLH.
PublisherConnected ==
    /\ At("publisher", "locked")
    /\ IF connected
       THEN /\ Goto("publisher", [threads["publisher"] EXCEPT
                                     !.pc = "moveNewObjectsLH", !.ret = "pass"])
            /\ UNCHANGED agentLock
       ELSE /\ Goto("publisher", IdleThread)
            /\ agentLock' = "free"
    /\ ThreadFrame("publisherConnected")
    /\ UNCHANGED <<addLock, connLock>>
    /\ UNCHANGED <<regVars, linkVars, subscriptions, connOpen>>
    /\ UNCHANGED <<methodQueue, inCallback, pipeBytes>>

\* The loops of the pass over managementObjects; the data indications they
\* hand to sendBuffer are sent one by one in PublisherSend.
PublisherPass ==
    /\ At("publisher", "pass")
    /\ LET live == managementObjects
           order == MapOrder(DOMAIN live)
           inLive == {live[id] : id \in DOMAIN live}
           s0 == [objs |-> [o \in Objs |->
                               IF o \in inLive
                               THEN ClearFlags(objs[o], clientWasAdded)
                               ELSE objs[o]],
                  flagged |-> {}, list |-> <<>>, del |-> <<>>, msgs |-> <<>>]
           s1 == OuterLoop(live, order, 1, s0, TRUE)
       IN  /\ objs' = s1.objs
           /\ Goto("publisher", [threads["publisher"] EXCEPT
                                    !.pc = "send", !.todo = Len(s1.msgs),
                                    !.del = s1.del])
    /\ clientWasAdded' = FALSE
    /\ ThreadFrame("publisherPass")
    /\ UNCHANGED <<agentLock, addLock, connLock>>
    /\ UNCHANGED <<newManagementObjects, managementObjects>>
    /\ UNCHANGED <<linkVars, subscriptions, connOpen>>
    /\ UNCHANGED <<methodQueue, inCallback, pipeBytes>>

\* sendBuffer of the next data indication, or on to the delete list.
PublisherSend ==
    /\ At("publisher", "send")
    /\ LET rec == threads["publisher"]
       IN  IF rec.todo > 0
           THEN Goto("publisher",
                     CallSend([rec EXCEPT !.todo = @ - 1], "data", "send"))
           ELSE Goto("publisher", [rec EXCEPT !.pc = "reap"])
    /\ ThreadFrame("publisherSend")
    /\ UNCHANGED <<agentLock, addLock, connLock>>
    /\ UNCHANGED <<regVars, linkVars, subscriptions, connOpen>>
    /\ UNCHANGED <<methodQueue, inCallback, pipeBytes>>

\* "Delete flagged objects": delete the object, erase its key; an iterator
\* another thread holds on an erased node is invalid from here on.  Then
\* sendHeartbeat.
PublisherReap ==
    /\ At("publisher", "reap")
    /\ LET del == threads["publisher"].del
           erased == {del[k][1] : k \in 1 .. Len(del)} \cap DOMAIN managementObjects
       IN  /\ objs' = ReapObjs(objs, del, Len(del))
           /\ managementObjects' = ReapLive(managementObjects, del)
           /\ threads' =
                 [t \in Threads |->
                     IF t = "publisher"
                     THEN CallSend([threads[t] EXCEPT !.del = <<>>],
                                   "heartbeat", "unlock")
                     ELSE [threads[t] EXCEPT
                              !.stale = @ \/ threads[t].cursor \in erased]]
    /\ ThreadFrame("publisherReap")
    /\ UNCHANGED <<agentLock, addLock, connLock>>
    /\ UNCHANGED <<newManagementObjects, clientWasAdded>>
    /\ UNCHANGED <<linkVars, subscriptions, connOpen>>
    /\ UNCHANGED <<methodQueue, inCallback, pipeBytes>>

\* periodicProcessing returns: agentLock is released.
PublisherUnlock ==
    /\ At("publisher", "unlock")
    /\ agentLock' = "free"
    /\ Goto("publisher", IdleThread)
    /\ ThreadFrame("publisherUnlock")
    /\ UNCHANGED <<addLock, connLock>>
    /\ UNCHANGED <<regVars, linkVars, subscriptions, connOpen>>
    /\ UNCHANGED <<methodQueue, inCallback, pipeBytes>>

\* ConnectionThread::run, an attempt that succeeds: under connLock
\* operational and connected are set and startProtocol calls sendHeartbeat.
ConnectionEstablished ==
    /\ At("connection", "idle")
    /\ initialized
    /\ connLock = "free"
    /\ connLock' = "connection"
    /\ operational' = TRUE
    /\ connected' = TRUE
    /\ subscriptions' = TRUE
    /\ connOpen' = TRUE
    /\ Goto("connection", CallSend([IdleThread EXCEPT !.sent = 0],
                                   "heartbeat", "enterRun"))
    /\ ThreadFrame("connectionEstablished")
    /\ UNCHANGED <<agentLock, addLock>>
    /\ UNCHANGED regVars
    /\ UNCHANGED <<methodQueue, inCallback, pipeBytes>>

\* ScopedUnlock of connLock around subscriptions->run().
ConnectionEnterRun ==
    /\ At("connection", "enterRun")
    /\ connLock' = ScopedUnlock("connection")
    /\ Goto("connection", [threads["connection"] EXCEPT !.pc = "run"])
    /\ ThreadFrame("connectionEnterRun")
    /\ UNCHANGED <<agentLock, addLock>>
    /\ UNCHANGED <<regVars, linkVars, subscriptions, connOpen>>
    /\ UNCHANGED <<methodQueue, inCallback, pipeBytes>>

\* subscriptions->run() returns or throws between two messages: connLock is
\* taken again, operational and connected are cleared, the manager is
\* dropped, the block ends, the connection is closed; the sleep follows.
ConnectionRunReturned ==
    /\ At("connection", "run")
    /\ connLock = "free"
    /\ operational' = FALSE
    /\ connected' = FALSE
    /\ subscriptions' = FALSE
    /\ connOpen' = FALSE
    /\ Goto("connection", IdleThread)
    /\ ThreadFrame("connectionRunReturned")
    /\ UNCHANGED <<agentLock, addLock, connLock>>
    /\ UNCHANGED regVars
    /\ UNCHANGED <<methodQueue, inCallback, pipeBytes>>

\* handleGetQuery for a query by class: the call of moveNewObjectsLH.
QueryBegin(cls) ==
    /\ At("connection", "run")
    /\ Goto("connection", [IdleThread EXCEPT
                              !.pc = "moveNewObjectsLH", !.ret = "next",
                              !.cls = cls])
    /\ ThreadFrame("queryBegin")
    /\ UNCHANGED <<agentLock, addLock, connLock>>
    /\ UNCHANGED <<regVars, linkVars, subscriptions, connOpen>>
    /\ UNCHANGED <<methodQueue, inCallback, pipeBytes>>

\* The loop over managementObjects up to the next object of the class, whose
\* pointer is taken; at the end of the map the empty response without the
\* partial header is sent and the handler returns.
QueryNext ==
    /\ At("connection", "next")
    /\ LET rec == threads["connection"]
           rest == {id \in DOMAIN managementObjects :
                       /\ OidLess(rec.cursor, id)
                       /\ ClassOf(managementObjects[id]) = rec.cls}
       IN  IF rec.stale
           THEN Goto("connection", [rec EXCEPT !.pc = "undefined"])
           ELSE IF rest = {}
           THEN Goto("connection", CallSend(rec, "query_final", "run"))
           ELSE LET id == CHOOSE x \in rest : \A y \in rest \ {x} : OidLess(x, y)
                IN  Goto("connection", [rec EXCEPT !.pc = "encode", !.cursor = id,
                                           !.object = managementObjects[id]])
    /\ ThreadFrame("queryNext")
    /\ UNCHANGED <<agentLock, addLock, connLock>>
    /\ UNCHANGED <<regVars, linkVars, subscriptions, connOpen>>
    /\ UNCHANGED <<methodQueue, inCallback, pipeBytes>>

\* object->mapEncodeValues(values, true, true) and the sendBuffer of the
\* partial response.
QueryEncode ==
    /\ At("connection", "encode")
    /\ LET rec == threads["connection"]
       IN  IF objs[rec.object].st = "destroyed"
           THEN /\ Goto("connection", [rec EXCEPT !.pc = "undefined"])
                /\ UNCHANGED objs
           ELSE /\ objs' = [objs EXCEPT
                               ![rec.object] = mapEncodeValues(@, TRUE, TRUE)]
                /\ Goto("connection",
                        CallSend([rec EXCEPT !.object = 0], "query_partial", "next"))
    /\ ThreadFrame("queryEncode")
    /\ UNCHANGED <<agentLock, addLock, connLock>>
    /\ UNCHANGED <<newManagementObjects, managementObjects, clientWasAdded>>
    /\ UNCHANGED <<linkVars, subscriptions, connOpen>>
    /\ UNCHANGED <<methodQueue, inCallback, pipeBytes>>

\* handleMethodRequest.  In external-thread mode, under agentLock: the
\* request is queued and the host is signalled, by a byte on the pipe or by
\* notify() or the callback, called with inCallback set and agentLock
\* released.  Otherwise invokeMethodRequest is called.
MethodReceived(req) ==
    /\ At("connection", "run")
    /\ IF extThread
       THEN /\ agentLock = "free"
            /\ Len(methodQueue) < MaxQueue
            /\ methodQueue' = Append(methodQueue, req)
            /\ IF pipeHandle
               THEN /\ pipeBytes < MaxPipe
                    /\ pipeBytes' = pipeBytes + 1
                    /\ UNCHANGED <<inCallback, agentLock, threads>>
               ELSE IF notifyable \/ notifyCallback
               THEN /\ inCallback' = TRUE
                    /\ agentLock' = ScopedUnlock("connection")
                    /\ Goto("connection",
                            [threads["connection"] EXCEPT !.pc = "notify"])
                    /\ UNCHANGED pipeBytes
               ELSE UNCHANGED <<pipeBytes, inCallback, agentLock, threads>>
       ELSE /\ Goto("connection", [IdleThread EXCEPT
                                      !.pc = "find", !.ret = "run",
                                      !.oid = req.oid])
            /\ UNCHANGED <<methodQueue, pipeBytes, inCallback, agentLock>>
    /\ ThreadFrame("methodReceived")
    /\ UNCHANGED <<addLock, connLock>>
    /\ UNCHANGED <<regVars, linkVars, subscriptions, connOpen>>

\* notify() or the callback returns: agentLock is taken again and
\* inCallback cleared; the handler returns and releases agentLock.
NotifyReturned ==
    /\ At("connection", "notify")
    /\ agentLock \in {"free", "connection"}
    /\ agentLock' = "free"
    /\ inCallback' = FALSE
    /\ Goto("connection", [threads["connection"] EXCEPT !.pc = "run"])
    /\ ThreadFrame("notifyReturned")
    /\ UNCHANGED <<addLock, connLock>>
    /\ UNCHANGED <<regVars, linkVars, subscriptions, connOpen>>
    /\ UNCHANGED <<methodQueue, pipeBytes>>

\* invokeMethodRequest: managementObjects.find(objId) and the isDeleted test;
\* the reply of an unknown object is sent at once.
InvokeFind(t) ==
    /\ At(t, "find")
    /\ LET rec == threads[t]
       IN  IF \/ rec.oid \notin DOMAIN managementObjects
              \/ objs[managementObjects[rec.oid]].deleted
           THEN Goto(t, CallSend(rec, "method_reply", rec.ret))
           ELSE Goto(t, [rec EXCEPT !.pc = "doMethod",
                                    !.object = managementObjects[rec.oid]])
    /\ ThreadFrame("invokeFind")
    /\ UNCHANGED <<agentLock, addLock, connLock>>
    /\ UNCHANGED <<regVars, linkVars, subscriptions, connOpen>>
    /\ UNCHANGED <<methodQueue, inCallback, pipeBytes>>

\* iter->second->doMethod(...) and the sendBuffer of the reply.
InvokeDoMethod(t) ==
    /\ At(t, "doMethod")
    /\ LET rec == threads[t]
       IN  IF objs[rec.object].st = "destroyed"
           THEN Goto(t, [rec EXCEPT !.pc = "undefined"])
           ELSE Goto(t, CallSend([rec EXCEPT !.object = 0], "method_reply", rec.ret))
    /\ ThreadFrame("invokeDoMethod")
    /\ UNCHANGED <<agentLock, addLock, connLock>>
    /\ UNCHANGED <<regVars, linkVars, subscriptions, connOpen>>
    /\ UNCHANGED <<methodQueue, inCallback, pipeBytes>>

\* addObject by the host thread, with the key the object derives: the whole
\* function runs under addLock.
HostAddObject(o) ==
    /\ At("host", "idle")
    /\ addLock = "free"
    /\ addObject(o, 0, FALSE)

\* resourceDestroy by the owner of the object, on any host thread.
HostResourceDestroy(o) == ObjResourceDestroy(o)

\* setSignalCallback(Notifyable&), under agentLock.
HostSetNotifyable ==
    /\ At("host", "idle")
    /\ agentLock = "free"
    /\ ~notifyable
    /\ setSignalNotifyable

\* raiseEvent: agentLock is taken and the event is handed to sendBuffer.
HostRaiseEvent ==
    /\ At("host", "idle")
    /\ agentLock = "free"
    /\ agentLock' = "host"
    /\ Goto("host", CallSend([IdleThread EXCEPT !.sent = 0], "event", "eventSent"))
    /\ ThreadFrame("raiseEvent")
    /\ UNCHANGED <<addLock, connLock>>
    /\ UNCHANGED <<regVars, linkVars, subscriptions, connOpen>>
    /\ UNCHANGED <<methodQueue, inCallback, pipeBytes>>

\* raiseEvent returns.
HostEventSent ==
    /\ At("host", "eventSent")
    /\ agentLock' = "free"
    /\ Goto("host", IdleThread)
    /\ ThreadFrame("eventSent")
    /\ UNCHANGED <<addLock, connLock>>
    /\ UNCHANGED <<regVars, linkVars, subscriptions, connOpen>>
    /\ UNCHANGED <<methodQueue, inCallback, pipeBytes>>

\* pollCallbacks(0) by the host thread: agentLock is taken; with inCallback
\* set the call returns 0.
HostPoll ==
    /\ At("host", "idle")
    /\ agentLock = "free"
    /\ IF inCallback
       THEN UNCHANGED <<agentLock, threads>>
       ELSE /\ agentLock' = "host"
            /\ Goto("host", [IdleThread EXCEPT !.pc = "pollLoop"])
    /\ ThreadFrame("pollCallbacks")
    /\ UNCHANGED <<addLock, connLock>>
    /\ UNCHANGED <<regVars, linkVars, subscriptions, connOpen>>
    /\ UNCHANGED <<methodQueue, inCallback, pipeBytes>>

\* The loop of pollCallbacks: the front request is removed and
\* invokeMethodRequest called under a ScopedUnlock of agentLock; with the
\* queue empty the pipe is drained and the call returns.
HostPollLoop ==
    /\ At("host", "pollLoop")
    /\ IF methodQueue = <<>>
       THEN /\ pipeBytes' = 0
            /\ agentLock' = "free"
            /\ Goto("host", IdleThread)
            /\ UNCHANGED methodQueue
       ELSE /\ methodQueue' = Tail(methodQueue)
            /\ agentLock' = ScopedUnlock("host")
            /\ Goto("host", [IdleThread EXCEPT
                                !.pc = "find", !.ret = "relock",
                                !.oid = Head(methodQueue).oid])
            /\ UNCHANGED pipeBytes
    /\ ThreadFrame("pollLoop")
    /\ UNCHANGED <<addLock, connLock>>
    /\ UNCHANGED <<regVars, linkVars, subscriptions, connOpen>>
    /\ UNCHANGED inCallback

\* The ScopedUnlock block of pollCallbacks ends: agentLock is taken again.
HostPollRelock ==
    /\ At("host", "relock")
    /\ agentLock \in {"free", "host"}
    /\ agentLock' = "host"
    /\ Goto("host", [IdleThread EXCEPT !.pc = "pollLoop"])
    /\ ThreadFrame("pollRelock")
    /\ UNCHANGED <<addLock, connLock>>
    /\ UNCHANGED <<regVars, linkVars, subscriptions, connOpen>>
    /\ UNCHANGED <<methodQueue, inCallback, pipeBytes>>

\* ------------------------------------------------------------------ claims
\* The object a pass or a query finds under id once staged is merged into live.
Observed(id) ==
    IF id \in DOMAIN newManagementObjects
    THEN newManagementObjects[id] ELSE managementObjects[id]
ObservedIds == DOMAIN newManagementObjects \cup DOMAIN managementObjects

InLiveOnce(live, o) == Cardinality({id \in DOMAIN live : live[id] = o}) = 1

ConnectedPass == op = "periodicProcessing" /\ seen.ran
Last(msgs) == msgs[Len(msgs)]

\* C1 as stated: the object addObject returned is in live exactly once after
\* the next call of periodicProcessing or handleGetQuery, whatever the
\* connection state and the keys.
C1_NextPassOrQueryShowsObject ==
    [][(op = "addObject" /\ op' \in {"periodicProcessing", "handleGetQuery"})
          => InLiveOnce(managementObjects', seen.obj)]_vars

\* C1 amended: after the next publication pass that runs while connected, or
\* the next query, staged is empty and every ObjectId addObject returned is a
\* key of live, held exactly once, by the object registered last under that
\* id, unless that pass reaped the object because it was deleted.
C1_MergeOnConnectedPassOrQuery ==
    [][(ConnectedPass' \/ op' = "handleGetQuery") =>
          /\ newManagementObjects' = EmptyMap
          /\ \A id \in DOMAIN newManagementObjects :
                LET o == newManagementObjects[id]
                IN  \/ /\ id \in DOMAIN managementObjects'
                       /\ managementObjects'[id] = o
                       /\ InLiveOnce(managementObjects', o)
                    \/ /\ ConnectedPass'
                       /\ objs[o].deleted
                       /\ objs'[o].st = "destroyed"
                       /\ id \notin DOMAIN managementObjects']_vars

\* C1 witness: a query merged a staged object over a live one of the same id.
C1_Witness ==
    /\ op = "handleGetQuery"
    /\ seen.merged > 0
    /\ \E o \in Objs : objs[o].st = "registered" /\ ~Held(o)
    /\ managementObjects # EmptyMap

\* C3: after a publication pass that ran while connected, every object the
\* pass observed with isDeleted = true is destroyed and out of live, and
\* every object it observed with isDeleted = false is still live under its id.
C3_PassReapsExactlyTheDeleted ==
    [][ConnectedPass' =>
          \A id \in ObservedIds :
             LET o == Observed(id)
             IN  IF objs[o].deleted
                 THEN /\ objs'[o].st = "destroyed"
                      /\ id \notin DOMAIN managementObjects'
                      /\ \A i \in DOMAIN managementObjects' : managementObjects'[i] # o
                 ELSE /\ objs'[o].st = "registered"
                      /\ id \in DOMAIN managementObjects'
                      /\ managementObjects'[id] = o]_vars

\* C3 witness: a connected pass has destroyed an object and kept another.
C3_Witness ==
    /\ ConnectedPass
    /\ \E o \in Objs : objs[o].st = "destroyed"
    /\ managementObjects # EmptyMap

\* The data indications of a sequence of messages that carry o's properties.
EmittedWithProps(msgs, o) ==
    \E m \in 1 .. Len(msgs) :
       /\ msgs[m].opcode = "_data_indication"
       /\ \E e \in 1 .. Len(msgs[m].list) :
             msgs[m].list[e].obj = o /\ msgs[m].list[e].props

\* C6: the first publication pass that runs while connected after a locate
\* request was handled includes every live object, with its properties, in a
\* data indication, and clientWasAdded is false when the pass ends.
C6_LocateForcesPublication ==
    [][(ConnectedPass' /\ locateSeen) =>
          /\ \A id \in ObservedIds : EmittedWithProps(out', Observed(id))
          /\ ~clientWasAdded']_vars

\* C6 witness: such a pass ran over a live object whose dirty bits were clear.
C6_Witness ==
    /\ ConnectedPass
    /\ seen.locate
    /\ \E id \in DOMAIN managementObjects :
          /\ EmittedWithProps(out, managementObjects[id])
          /\ ~objs[managementObjects[id]].deleted
    /\ Len(out) >= 2

ObjectQuery == op = "handleGetQuery" /\ seen.q.what = "OBJECT"
FoundById == seen.q.oid # NoOid /\ seen.q.oid \in DOMAIN managementObjects

\* C10 as stated: every OBJECT query ends with an empty list without the
\* partial header.
C10_EveryObjectQueryEndsWithEmptyList ==
    ObjectQuery => (out # <<>> /\ Last(out) = QueryComplete)

\* C10 amended: the response stream of an OBJECT query ends with a response
\* without the partial header, every earlier message carrying it; the last
\* message is the empty list for a query by class or by an id not in live,
\* and the single-element list itself for a query by an id found in live.
C10_ObjectQueryEndsNonPartial ==
    ObjectQuery =>
       /\ out # <<>>
       /\ Last(out).opcode = "_query_response"
       /\ ~Last(out).partial
       /\ \A m \in 1 .. Len(out) - 1 : out[m].partial
       /\ IF FoundById
          THEN Len(out) = 1 /\ Len(Last(out).list) = 1
          ELSE Last(out) = QueryComplete

\* C10 witness: a query by id answered from live.
C10_Witness == ObjectQuery /\ FoundById /\ Len(out) = 1

\* The connection thread has just finished a sleep that followed an attempt
\* with one of the given outcomes.
SleptAfter(outcomes) ==
    op = "connSleep" /\ seen.kind = "slept" /\ seen.after \in outcomes

RECURSIVE Pow(_, _)
Pow(b, n) == IF n = 0 THEN 1 ELSE b * Pow(b, n - 1)
Min(a, b) == IF a < b THEN a ELSE b

\* C8 as stated: from a fresh or reset supervisor, the sleep after the
\* (k+1)-th failed attempt in a row lasts min(2^k, 128) seconds, 1 second
\* after the first, and the delay never exceeds 128.
C8_BackoffSleepsStartAtOne ==
    /\ delay <= delayMax
    /\ (SleptAfter({"failed"}) /\ seen.base = delayMin)
          => seen.secs = Min(Pow(delayFactor, seen.fails - 1), delayMax)

\* C8 amended: the delay is doubled before the sleep, so from a fresh or
\* reset supervisor the sleep after the k-th failed attempt in a row lasts
\* min(2^k, 128) seconds, 2 seconds after the first, and the delay never
\* exceeds 128.
C8_BackoffSleepsStartAtTwo ==
    /\ delay \in delayMin .. delayMax
    /\ (SleptAfter({"failed"}) /\ seen.base = delayMin)
          => seen.secs = Min(Pow(delayFactor, seen.fails), delayMax)

\* C8 witness: the sleep after the eighth failure in a row, held at the cap.
C8_Witness ==
    /\ SleptAfter({"failed"})
    /\ seen.base = delayMin
    /\ seen.fails = 8
    /\ seen.secs = delayMax

\* C9 as stated: the sleep that follows an attempt whose subscription run
\* completed lasts 1 second, whether or not connection.close() failed.
C9_SleepAfterRunLastsOneSecond ==
    SleptAfter({"ran", "ranCloseThrew"}) => seen.secs = delayMin

\* C9, the part the code keeps: after a run followed by a close that did not
\* throw, the sleep lasts 1 second.
C9_SleepAfterRunAndCleanClose ==
    SleptAfter({"ran"}) => seen.secs = delayMin

\* C9 witness: a sleep that followed a run whose close threw.
C9_Witness == SleptAfter({"ranCloseThrew"}) /\ seen.secs = delayMin * delayFactor

\* C2 as stated: an object registered with persistent = true has epoch zero
\* and one registered with persistent = false has a nonzero epoch, whatever
\* the order of init and addObject.
C2_EpochZeroIffPersistent ==
    op = "addObject" => (seen.oid.epoch = 0 <=> seen.persistent)

\* C2, the part the code keeps: once init has left a nonzero bootSequence,
\* the epoch is zero for a persistent object and bootSequence otherwise.
C2_EpochAfterInit ==
    (op = "addObject" /\ initialized /\ bootSequence # 0) =>
       /\ seen.oid.epoch = 0 <=> seen.persistent
       /\ ~seen.persistent => seen.oid.epoch = bootSequence

\* C2 witness: a non-persistent object registered before init.
C2_Witness ==
    op = "addObject" /\ ~initialized /\ ~seen.persistent /\ seen.oid.epoch = 0

Registered(pkgs, packageName, key) ==
    packageName \in DOMAIN pkgs /\ key \in DOMAIN pkgs[packageName]

\* C5: a registerClass or registerEvent call whose (package, name, hash) is
\* already registered leaves the package map and its class maps unchanged and
\* sends nothing, whatever kind and writeSchema callable it passes.
C5_RepeatedRegistrationIsNoOp ==
    [][(op' \in {"registerClass", "registerEvent"}
          /\ Registered(packages, seen'.pkg, seen'.key))
          => (packages' = packages /\ out' = <<>>)]_vars

\* C5 witness: while connected, registerEvent has repeated a key registered
\* as a TABLE with another callable, and the entry is still the first one.
C5_Witness ==
    /\ op = "registerEvent"
    /\ connected
    /\ packages[seen.pkg][seen.key].kind = "TABLE"
    /\ packages[seen.pkg][seen.key].writeSchemaCall # seen.call

\* C7 as stated: a pollCallbacks call made from inside a callback returns 0
\* and leaves the method queue unchanged, and no other call is refused.
C7_PollRefusedOnlyWhenReentrant ==
    [][op' = "pollCallbacks" =>
          /\ seen'.caller = "callback" =>
                (seen'.refused /\ seen'.ret = 0 /\ methodQueue' = methodQueue)
          /\ seen'.refused => seen'.caller = "callback"]_vars

\* C7, the part the code keeps: a pollCallbacks call made from inside a
\* callback is refused, returns 0 and leaves the method queue unchanged.
C7_ReentrantPollReturnsZero ==
    [][(op' = "pollCallbacks" /\ seen'.caller = "callback") =>
          (seen'.refused /\ seen'.ret = 0 /\ methodQueue' = methodQueue)]_vars

\* C7 witness: the host thread's call was refused with a request queued,
\* while the connection thread was inside a callback.
C7_Witness ==
    /\ op = "pollCallbacks"
    /\ seen.caller = "host"
    /\ seen.refused
    /\ ctPc = "inNotify"
    /\ methodQueue # <<>>

QueryByIdSeen == ObjectQuery /\ seen.q.oid # NoOid
QueryByClassSeen == ObjectQuery /\ seen.q.oid = NoOid

\* C11: a query by object id is answered, when the id is in live once the
\* handler has merged the staged objects, by exactly one message, a
\* one-element list for that id and its object without the partial header;
\* and otherwise by the empty list without the partial header alone.
C11_QueryByIdSendsOneResponse ==
    QueryByIdSeen =>
       IF seen.q.oid \in DOMAIN managementObjects
       THEN out = <<Msg("_query_response", FALSE,
                        <<[oid |-> seen.q.oid,
                           obj |-> managementObjects[seen.q.oid],
                           props |-> TRUE, stats |-> TRUE]>>)>>
       ELSE out = <<QueryComplete>>

\* C11 witness: a query by the id of an object that was still staged when
\* the request arrived, answered by one message.
C11_Witness ==
    /\ QueryByIdSeen
    /\ seen.q.oid \in DOMAIN managementObjects
    /\ seen.merged > 0
    /\ Len(out) = 1

\* The ids of the live objects a class query selects.
Selected(q) ==
    {id \in DOMAIN managementObjects :
        /\ ClassOf(managementObjects[id]) = q.cls
        /\ (q.pkg = "" \/ PackageOf(ClassOf(managementObjects[id])) = q.pkg)}

\* C12: a query without _object_id is answered by one one-element list with
\* the partial header for every live object of the requested class (and of
\* the requested package when one is given), in the order of the registry,
\* then by one empty list without the partial header, and by nothing else.
C12_QueryByClassSendsOnePerMatch ==
    QueryByClassSeen =>
       /\ Len(out) = Cardinality(Selected(seen.q)) + 1
       /\ Last(out) = QueryComplete
       /\ \A k \in 1 .. Len(out) - 1 :
             /\ out[k].opcode = "_query_response"
             /\ out[k].partial
             /\ Len(out[k].list) = 1
             /\ out[k].list[1].oid \in Selected(seen.q)
             /\ out[k].list[1].obj = managementObjects[out[k].list[1].oid]
             /\ \A j \in 1 .. k - 1 :
                   OidLess(out[j].list[1].oid, out[k].list[1].oid)

\* C12 witness: a query by class and package answered by two one-element
\* lists and the empty list.
C12_Witness ==
    /\ QueryByClassSeen
    /\ seen.q.pkg # ""
    /\ Len(out) = 3

MethodInvoked == seen.kind \in {"method", "poll"} /\ seen.inv.done
UnknownObject ==
    \/ seen.inv.req.oid \notin DOMAIN managementObjects
    \/ objs[managementObjects[seen.inv.req.oid]].deleted
Answer == seen.inv.resp.list[1]

\* C13 as stated: a method request whose _object_id is not in live, or names
\* an object with isDeleted set, is answered with opcode _exception and
\* _status_code UNKNOWN_OBJECT in _values, and doMethod is not called.
C13_UnknownObjectAnswered ==
    (MethodInvoked /\ seen.inv.req.form = "ok" /\ UnknownObject) =>
        /\ seen.inv.resp.opcode = "_exception"
        /\ Answer.code = "UNKNOWN_OBJECT"
        /\ seen.inv.called = {}

\* C13, the part the code keeps: such a request is answered with opcode
\* _exception and doMethod is not called on any object.
C13_UnknownObjectFailsWithoutCall ==
    (MethodInvoked /\ seen.inv.req.form = "ok" /\ UnknownObject) =>
        /\ seen.inv.resp.opcode = "_exception"
        /\ seen.inv.called = {}

\* C13 witness: a request naming a deleted object still in live was answered
\* with the status of the conversion failure.
C13_Witness ==
    /\ MethodInvoked
    /\ seen.inv.req.form = "ok"
    /\ seen.inv.req.oid \in DOMAIN managementObjects
    /\ objs[managementObjects[seen.inv.req.oid]].deleted
    /\ Answer.code = "EXCEPTION"
    /\ out = <<seen.inv.resp>>

\* C14: a method request on a live object that is not deleted makes exactly
\* one send, transferred unless the link is down; when doMethod left
\* _status_code 0 it is a _method_response whose _arguments holds every key
\* of the call map but the status pair, and when it left another status it
\* is an _exception whose _values holds that status code and text.
C14_MethodAnsweredOnce ==
    (MethodInvoked /\ seen.inv.req.form = "ok" /\ ~UnknownObject) =>
        LET callMap == doMethod(seen.inv.req.method) IN
        /\ seen.inv.called = {managementObjects[seen.inv.req.oid]}
        /\ out = (IF operational THEN <<seen.inv.resp>> ELSE <<>>)
        /\ Len(seen.inv.resp.list) = 1
        /\ Answer.cid = seen.inv.req.id
        /\ seen.inv.resp.opcode \in {"_method_response", "_exception"}
        /\ (callMap.hasStatus /\ callMap.code = "0") =>
              /\ seen.inv.resp.opcode = "_method_response"
              /\ Answer.hasArguments
              /\ Answer.arguments = callMap.keys
              /\ Answer.code = ""
        /\ (callMap.hasStatus /\ callMap.code # "0") =>
              /\ seen.inv.resp.opcode = "_exception"
              /\ Answer.code = callMap.code
              /\ Answer.text = callMap.text
              /\ ~Answer.hasArguments

\* C14 witness: a failing method was answered by the host thread's poll and
\* the _exception was transferred.
C14_Witness ==
    /\ MethodInvoked
    /\ seen.kind = "poll"
    /\ seen.inv.req.form = "ok"
    /\ ~UnknownObject
    /\ seen.inv.req.method = "fail"
    /\ out = <<seen.inv.resp>>
    /\ seen.inv.resp.opcode = "_exception"


\* C15 as stated: no message is transferred while operational is false,
\* whichever thread asked for the send and whenever operational was cleared.
C15_NoTransferWhileDown == out # <<>> => operational

\* C15, the part the code keeps: a send that finds operational false at its
\* check under connLock transfers nothing and takes no subscription handle.
C15_DownAtCheckIsDropped ==
    [][(op' = "sendCheck" /\ ~operational) =>
          (seen'.dropped /\ out' = <<>> /\ sender' = IdleSender)]_vars

\* C15 witness: the publisher's message was transferred after the connection
\* thread had cleared operational and before it closed the connection.
C15_Witness ==
    /\ op = "sendTransfer"
    /\ seen.by = "publisher"
    /\ out = <<HeartbeatMsg>>
    /\ ~operational
    /\ ctPc = "closing"


SendThrewWhileOperational == op = "sendTransfer" /\ seen.threw /\ operational

\* C16 as stated, its first step: when a send throws while the supervisor is
\* operational, the subscription the connection thread runs is stopped (so
\* that the thread leaves the subscription loop and connects again).
C16_ThrowStopsSubscription == SendThrewWhileOperational => subStop

\* C16, the part the code keeps: once the subscription the connection thread
\* runs is stopped, the thread leaves the subscription loop, with
\* operational and connected cleared, and comes to a new attempt.
C16_StoppedRunReconnects ==
    (subStop /\ ctPc = "running")
        ~> (ctPc = "top" /\ ~operational /\ ~connected /\ ~connOpen)

\* C16 witness: a send that had taken its handle during an earlier
\* subscription run threw during the present one, and stopped nothing.
C16_Witness ==
    /\ SendThrewWhileOperational
    /\ ~seen.stopped
    /\ ctPc = "running"
    /\ ~subStop


Returned == ctPc \in {"done", "joined"}

\* C17: after ConnectionThread::close() the run loop eventually returns,
\* wherever the thread was (in an attempt, about to enter or inside the
\* subscription run, in the sleep block); once it has passed the attempt it
\* was in, it begins no other, and once returned it stays returned.
C17_CloseEndsRun ==
    /\ shutdown ~> Returned
    /\ [][(shutdown /\ ctPc # "top") => ctPc' # "top"]_vars
    /\ [][Returned => Returned']_vars

\* C17 witness: run() has returned from the sleep block that followed a
\* subscription run, close() having come during that run or that sleep.
C17_Witness ==
    /\ ctPc = "done"
    /\ shutdown
    /\ op = "connSleep"
    /\ lastAttempt = "ran"


PassInvoked == op = "periodicProcessing"
EndsWithHeartbeat ==
    /\ out # <<>>
    /\ Last(out) = HeartbeatMsg
    /\ \A k \in 1 .. Len(out) - 1 : out[k].opcode = "_data_indication"

\* C18 as stated: every invocation of periodicProcessing ends with one
\* heartbeat, emitted after all data indications of that pass.
C18_EveryPassEndsWithHeartbeat == PassInvoked => EndsWithHeartbeat

\* C18 amended: an invocation of periodicProcessing that finds the agent
\* connected ends with exactly one heartbeat, after all data indications of
\* that pass (all of them transferred only while the supervisor is
\* operational); an invocation that finds it not connected sends nothing.
C18_ConnectedPassEndsWithHeartbeat ==
    PassInvoked =>
        IF seen.ran /\ operational THEN EndsWithHeartbeat ELSE out = <<>>

\* C18 witness: a connected pass sent a data indication and then its
\* heartbeat.
C18_Witness ==
    /\ PassInvoked
    /\ seen.ran
    /\ Len(out) >= 2
    /\ Last(out) = HeartbeatMsg


TornDown == ctPc = "joined"

\* C19 as stated: after teardown every object the agent was given (staged or
\* live at any time) has been destroyed, also when two of them were given
\* equal ObjectIds.
C19_AllDestroyedAfterTeardown ==
    TornDown => \A o \in Objs : objs[o].st # "registered"

\* C19, the part the code keeps: teardown leaves both maps empty and destroys
\* every object that was staged or live when it ran, but for a live one
\* whose id a staged one had too.
C19_TeardownDestroysWhatIsHeld ==
    /\ TornDown => (DOMAIN managementObjects = {} /\ DOMAIN newManagementObjects = {})
    /\ op = "destructor" =>
          /\ \A o \in seen.deleted : objs[o].st = "destroyed"
          /\ \A o \in seen.replaced : objs[o].st = "registered"

\* C19 witness: teardown destroyed the staged object and left undestroyed the
\* live one registered under the same ObjectId.
C19_Witness ==
    /\ op = "destructor"
    /\ seen.replaced # {}
    /\ seen.deleted # {}
    /\ \E o \in seen.replaced : objs[o].st = "registered"


\* C20 as stated: whenever an attempt that opened the connection has ended,
\* by the end of its subscription run or by an exception after open(), the
\* connection is closed before the sleep block and before the next open().
C20_ClosedOnEveryExitPath == ctPc \in {"sleeping", "top"} => ~connOpen

\* C20, the part the code keeps: an attempt whose subscription run ended has
\* called connection.close() before the sleep block.
C20_ClosedAfterRun ==
    (ctPc = "sleeping" /\ op = "disconnected") => ~connOpen

\* C20 witness: an attempt threw after open() had succeeded and the thread
\* is in the sleep block with the connection open.
C20_Witness ==
    /\ op = "connFailed"
    /\ seen.opened
    /\ ctPc = "sleeping"
    /\ connOpen


HostPollReturned == seen.kind = "poll" /\ seen.caller = "host" /\ seen.done

\* C21 as stated: a pollCallbacks(limit) call of the host thread invokes at
\* most limit requests when limit > 0 and every queued request when limit is
\* 0, returns the number of requests still queued, and leaves no byte in the
\* signal pipe.
C21_PollDrainsAndReportsQueue ==
    HostPollReturned =>
        /\ seen.ret = Len(methodQueue)
        /\ pipeBytes = 0
        /\ seen.limit = 0 => methodQueue = <<>>
        /\ seen.limit > 0 => seen.calls <= seen.limit

\* C21, the part the code keeps: a call that is not refused has these
\* results.
C21_AcceptedPollDrainsAndReportsQueue ==
    (HostPollReturned /\ ~seen.refused) =>
        /\ seen.ret = Len(methodQueue)
        /\ pipeBytes = 0
        /\ seen.limit = 0 => methodQueue = <<>>
        /\ seen.limit > 0 => seen.calls <= seen.limit

\* C21 witness: a pollCallbacks(0) call of the host thread returned 0 with a
\* request left in the queue.
C21_Witness ==
    /\ HostPollReturned
    /\ seen.limit = 0
    /\ seen.ret = 0
    /\ Len(methodQueue) > 0


\* C22: clientWasAdded is set when the agent is constructed and is cleared
\* by nothing but a publication pass that runs while connected, so the first
\* such pass finds it set; and a connected pass that finds it set includes
\* every object the registry holds, with its properties, in a data
\* indication, and ends with the heartbeat.
C22_FirstPassPublishesEverything ==
    /\ [](op = "construct" => clientWasAdded)
    /\ [][(clientWasAdded /\ ~clientWasAdded') => ConnectedPass']_vars
    /\ [][(ConnectedPass' /\ clientWasAdded) =>
             /\ \A id \in ObservedIds : EmittedWithProps(out', Observed(id))
             /\ Last(out') = HeartbeatMsg]_vars

\* C22 witness: the pass that found clientWasAdded set with no locate request
\* handled before it published a registered object and then the heartbeat.
C22_Witness ==
    /\ ConnectedPass
    /\ seen.client
    /\ ~seen.locate
    /\ seen.merged > 0
    /\ \E o \in Objs : EmittedWithProps(out, o) /\ objs[o].st = "registered"
    /\ Last(out) = HeartbeatMsg


\* -- C29 ---------------------------------------------------------------
\* The connection thread is in the sleep block, or past the subscription run
\* and about to close the connection.
OutOfRun == ctPc \in {"sleeping", "closing"}

\* C29: whenever the connection thread is in a backoff sleep or has left the
\* subscription run, operational and connected are false and the
\* subscription handle is empty; operational and connected are true only
\* during the subscription run; and operational implies that the handle
\* holds a manager.
C29_DownAndEmptyOutsideRun ==
    /\ OutOfRun => (~operational /\ ~connected /\ ~subscriptions)
    /\ (operational \/ connected) => ctPc \in {"running", "inNotify"}
    /\ operational => subscriptions

\* The part the code keeps: the two flags are down outside the run, and a
\* manager is held while operational.
C29_FlagsDownOutsideRun ==
    /\ OutOfRun => (~operational /\ ~connected)
    /\ (operational \/ connected) => ctPc \in {"running", "inNotify"}
    /\ operational => subscriptions

\* The thread sleeps after an attempt that threw once the manager was made.
C29_Witness ==
    /\ ctPc = "sleeping"
    /\ lastAttempt = "failed"
    /\ subscriptions
    /\ ~operational /\ ~connected

\* -- C30 ---------------------------------------------------------------
\* How many entries of the data indications in msgs carry object o.
RECURSIVE Appended(_, _)
Appended(msgs, o) ==
    IF msgs = <<>> THEN 0
    ELSE Cardinality({e \in 1 .. Len(Head(msgs).list) :
                         /\ Head(msgs).opcode = "_data_indication"
                         /\ Head(msgs).list[e].obj = o})
         + Appended(Tail(msgs), o)

\* The object's state as the second loop of the pass finds it.
ForcedAtPass(o) == objs[o].forcePublish \/ clientWasAdded
PropsDue(o) == objs[o].configChanged \/ ForcedAtPass(o) \/ objs[o].deleted
StatsDue(o) == HasInst(ClassOf(o)) /\ (objs[o].instChanged \/ ForcedAtPass(o))

StreamOpen ==
    LET rec == threads["connection"]
    IN  /\ rec.sent > 0
        /\ rec.pc \in {"next", "encode", "run"}
        /\ (rec.pc = "run" => rec.send # "none")

\* The last step was a messageTransfer of thread t that succeeded.
Transferred(t) == op = "messageTransfer" /\ seen.by = t /\ ~seen.threw

\* C23: a query response stream is contiguous: between the first response
\* of a query and its terminating non-partial message no message of another
\* thread is transferred.
C23_QueryStreamContiguous ==
    [][\A t \in Threads \ {"connection"} : Transferred(t)' => ~StreamOpen]_vars

\* The publisher's message went out in the middle of a response stream.
C23_Witness == StreamOpen /\ Transferred("publisher")

\* -- C24 ---------------------------------------------------------------
InMessageTransfer == {t \in Threads : threads[t].send = "transfer"}

\* C24: at most one thread executes messageTransfer at any time.
C24_OneThreadInMessageTransfer == Cardinality(InMessageTransfer) <= 1

\* The publisher and the connection thread are both past the check of
\* sendMessage, on an open connection.
C24_Witness == InMessageTransfer = {"publisher", "connection"} /\ connOpen

\* -- C25 ---------------------------------------------------------------
\* The next statement of thread t reads or writes managementObjects: the
\* merge, the loops and the erase of a pass, the loop of a query, the find
\* of a method invocation.
RegistryAccess(t) ==
    \E pos \in {"moving", "pass", "reap", "next", "find"} : At(t, pos)

\* C25: every read, iteration, insertion and erase of the live registry is
\* made by a thread that holds agentLock.
C25_RegistryUnderAgentLock ==
    \A t \in Threads : RegistryAccess(t) => agentLock = t

\* The connection thread is about to read the map while the publisher, which
\* holds agentLock, is about to erase from it.
C25_Witness ==
    /\ agentLock = "publisher"
    /\ At("publisher", "reap")
    /\ threads["publisher"].del # <<>>
    /\ At("connection", "next") \/ At("connection", "find")

\* -- C26 ---------------------------------------------------------------
\* Thread t is about to call doMethod or mapEncodeValues on the pointer it
\* took from the map.
AboutToUse(t) == At(t, "encode") \/ At(t, "doMethod")

\* C26: no method invocation or query calls doMethod or mapEncodeValues on
\* an object that a publication pass has already deleted.
C26_NoUseAfterDestroy ==
    \A t \in Threads : AboutToUse(t) => objs[threads[t].object].st # "destroyed"

\* The connection thread holds the pointer of an object the pass has deleted
\* and erased since, and calls doMethod on it.
C26_Witness ==
    /\ At("connection", "doMethod")
    /\ objs[threads["connection"].object].st = "destroyed"
    /\ threads["connection"].oid \notin DOMAIN managementObjects

\* -- C27 ---------------------------------------------------------------
\* The host thread is in the invokeMethodRequest that pollCallbacks called,
\* or at the end of the block around it.
Dispatching == threads["host"].pc \in {"find", "doMethod", "relock"}
InNotify == threads["connection"].pc = "notify"

Wants(t) ==
    IF threads[t].send = "enter" THEN "connLock"
    ELSE IF At(t, "moveNewObjectsLH") THEN "addLock"
    ELSE IF At(t, "relock") \/ At(t, "notify") THEN "agentLock"
    ELSE "none"
Owner(l) ==
    CASE l = "agentLock" -> agentLock
      [] l = "addLock" -> addLock
      [] l = "connLock" -> connLock
      [] OTHER -> "free"
WaitsFor(t, u) == Wants(t) # "none" /\ u # t /\ Owner(Wants(t)) = u

\* C28: a thread takes addLock holding no lock or agentLock alone and takes
\* no lock while it holds addLock; no thread takes agentLock while holding
\* addLock or connLock; and no threads wait for each other's locks.
C28_LockNestingAcyclic ==
    /\ [][\A t \in Threads :
            /\ (agentLock' = t /\ agentLock # t) => (addLock # t /\ connLock # t)
            /\ (addLock' = t /\ addLock # t) => connLock # t
            /\ (connLock' = t /\ connLock # t) => addLock # t]_vars
    /\ [](\A S \in SUBSET Threads \ {{}} :
             \E t \in S : \A u \in S : ~WaitsFor(t, u))

\* The publisher holds addLock inside agentLock while the connection thread
\* waits for addLock, holding nothing.
C28_Witness ==
    /\ agentLock = "publisher" /\ addLock = "publisher"
    /\ WaitsFor("connection", "publisher")

\* -- C31 ---------------------------------------------------------------
\* C31: a publication pass sends a data indication for a group only if the
\* group's list is non-empty: no data indication with an empty list is sent,
\* also for a group whose base object has only instChanged set and whose
\* class carries no statistics.
C31_NoEmptyDataIndication ==
    ConnectedPass =>
        \A m \in 1 .. Len(out) :
            out[m].opcode = "_data_indication" => out[m].list # <<>>

\* A pass without a new console sent a data indication with an empty list,
\* and an object of a class without statistics that has only instChanged set
\* (nothing encodes it, so the bit outlives the pass) is in no message.
C31_Witness ==
    /\ ConnectedPass
    /\ ~seen.client
    /\ \E m \in 1 .. Len(out) :
          out[m].opcode = "_data_indication" /\ out[m].list = <<>>
    /\ \E o \in DOMAIN objs :
          /\ objs[o].st = "registered"
          /\ ~HasInst(ClassOf(o))
          /\ objs[o].instChanged /\ ~objs[o].configChanged /\ ~objs[o].deleted
          /\ Appended(out, o) = 0

\* -- C32 ---------------------------------------------------------------
\* The data indications among the messages of an action, in the order sent.
IsDataIndication(msg) == msg.opcode = "_data_indication"
DataIndications(msgs) == SelectSeq(msgs, IsDataIndication)

\* The object has something that makes it the base of a group.
NeedsMessage(o) ==
    objs[o].configChanged \/ objs[o].instChanged \/ ForcedAtPass(o) \/ objs[o].deleted

\* The groups a pass over the map (live, in the order of its keys) is to
\* form, by class: the positions of the first object of each class that
\* needs a message, in map order.
GroupBases(live, order) ==
    LET IsBase(i) ==
            /\ NeedsMessage(live[order[i]])
            /\ \A j \in 1 .. i - 1 :
                  isSameClass(live[order[j]], live[order[i]])
                     => ~NeedsMessage(live[order[j]])
    IN  SelectSeq([i \in 1 .. Len(order) |-> i], IsBase)

\* The ids a group's message is to carry: the objects of the base's class
\* from the base on that have properties or statistics to send.
GroupIds(live, order, b) ==
    LET InGroup(id) ==
            /\ isSameClass(live[id], live[order[b]])
            /\ (PropsDue(live[id]) \/ StatsDue(live[id]))
    IN  SelectSeq(SubSeq(order, b, Len(order)), InGroup)

\* C32: within one publication pass objects are grouped by class: every live
\* object is flagged at most once and appears in at most one data indication,
\* every entry of a message is of the class of the group's base object, one
\* message is sent per group, and the messages are sent in the order of the
\* bases, each before the pass moves on to the next unflagged object.
C32_GroupedByClass ==
    [][ConnectedPass' =>
          LET live == moveNewObjectsLH(managementObjects, newManagementObjects)
              order == MapOrder(DOMAIN live)
              bases == GroupBases(live, order)
              data == DataIndications(out')
          IN  /\ Len(data) = Len(bases)
              /\ \A k \in 1 .. Len(data) :
                    /\ [e \in 1 .. Len(data[k].list) |-> data[k].list[e].oid]
                          = GroupIds(live, order, bases[k])
                    /\ \A e \in 1 .. Len(data[k].list) :
                          /\ data[k].list[e].obj = live[data[k].list[e].oid]
                          /\ isSameClass(data[k].list[e].obj, live[order[bases[k]]])
              /\ \A id \in DOMAIN live : Appended(out', live[id]) <= 1]_vars

\* A pass sent two data indications, the first with two objects of one class
\* whose ids lie on either side of the id of an object of another class that
\* the second message carries.
C32_Witness ==
    /\ ConnectedPass
    /\ Len(DataIndications(out)) = 2
    /\ LET first == DataIndications(out)[1].list
           second == DataIndications(out)[2].list
       IN  /\ Len(first) = 2
           /\ Len(second) = 1
           /\ isSameClass(first[1].obj, first[2].obj)
           /\ ~isSameClass(first[1].obj, second[1].obj)
           /\ OidLess(first[1].oid, second[1].oid)
           /\ OidLess(second[1].oid, first[2].oid)

\* -- C33 ---------------------------------------------------------------
\* The request just handled names the ObjectId of an object that addObject
\* returned and no merge has yet moved into managementObjects.
StagedRequest ==
    /\ MethodInvoked
    /\ seen.inv.req.form = "ok"
    /\ seen.inv.req.oid \in DOMAIN newManagementObjects

\* C33 as stated: an object returned by addObject is not visible to method
\* invocation until a merge has happened: a method request for its ObjectId
\* handled while it is still staged is answered as an unknown object and
\* does not reach the object's doMethod.
C33_StagedObjectUnknownToMethods ==
    StagedRequest =>
        /\ seen.inv.resp.opcode = "_exception"
        /\ Answer.code = "UNKNOWN_OBJECT"
        /\ newManagementObjects[seen.inv.req.oid] \notin seen.inv.called

\* C33, the part the code keeps: the staged object's doMethod is not called,
\* and unless managementObjects holds another object under the same ObjectId
\* the request is answered with an _exception and no doMethod is called.
C33_StagedObjectNotInvoked ==
    StagedRequest =>
        /\ newManagementObjects[seen.inv.req.oid] \notin seen.inv.called
        /\ seen.inv.req.oid \notin DOMAIN managementObjects =>
              /\ seen.inv.resp.opcode = "_exception"
              /\ seen.inv.called = {}

\* The method path performs no merge: handling a method request, inline or
\* from the host's poll, leaves both maps as they are.
C33_MethodPathMergesNothing ==
    [][MethodInvoked' =>
          UNCHANGED <<newManagementObjects, managementObjects>>]_vars

\* C33 witness: a request for the ObjectId of a staged object, which
\* managementObjects does not hold, was answered with the status of the
\* conversion failure and no doMethod was called.
C33_Witness ==
    /\ StagedRequest
    /\ seen.inv.req.oid \notin DOMAIN managementObjects
    /\ Answer.code = "EXCEPTION"
    /\ seen.inv.called = {}

\* A request for the ObjectId of a staged object reached the doMethod of the
\* object that managementObjects holds under the same ObjectId.
C33_WitnessEqualId ==
    /\ StagedRequest
    /\ seen.inv.req.oid \in DOMAIN managementObjects
    /\ seen.inv.called = {managementObjects[seen.inv.req.oid]}
    /\ managementObjects[seen.inv.req.oid] # newManagementObjects[seen.inv.req.oid]

\* ---------------------------------------------------------- specifications
\* The agent with its registry, the publication pass and the query handler.
Next ==
    \/ init(FALSE)
    \/ \E o \in Objs, key \in KeyArgs, persistent \in BOOLEAN :
          addObject(o, key, persistent)
    \/ \E o \in Objs : ObjResourceDestroy(o)
    \/ periodicProcessing
    \/ ConnEstablished
    \/ ConnLost(FALSE)
    \/ ConnSleep
    \/ \E q \in Queries : handleGetQuery(q)

Spec == Init /\ [][Next]_vars

\* The publication engine under every change the host makes to its objects.
NextPub ==
    \/ init(FALSE)
    \/ \E o \in Objs, key \in KeyArgs, persistent \in BOOLEAN :
          addObject(o, key, persistent)
    \/ \E o \in Objs : ObjResourceDestroy(o)
    \/ \E o \in Objs, config \in BOOLEAN : ObjChanged(o, config)
    \/ periodicProcessing
    \/ ConnEstablished
    \/ ConnLost(FALSE)
    \/ ConnSleep
    \/ handleLocateRequest
    \/ handleConsoleAddedIndication

SpecPub == Init /\ [][NextPub]_vars

\* The connection thread alone, with every outcome of an attempt.
NextConn ==
    \/ \E e \in BOOLEAN : init(e)
    \/ ConnSkip
    \/ \E afterOpen \in BOOLEAN : ConnFailed(afterOpen)
    \/ ConnEstablished
    \/ \E closeThrows \in BOOLEAN : ConnLost(closeThrows)
    \/ ConnSleep

SpecConn == Init /\ [][NextConn]_vars

\* The schema registry, before and after the agent connects.
NextSchema ==
    \/ init(FALSE)
    \/ ConnEstablished
    \/ ConnLost(FALSE)
    \/ ConnSleep
    \/ \E p \in PackageNames, key \in SchemaKeys, call \in SchemaCalls :
          registerClass(p, key, call)
    \/ \E p \in PackageNames, key \in SchemaKeys, call \in SchemaCalls :
          registerEvent(p, key, call)

SpecSchema == Init /\ [][NextSchema]_vars

\* The external-thread bridge: the connection thread delivering method
\* requests, the host thread polling.
NextBridge ==
    \/ \E e \in BOOLEAN : init(e)
    \/ ConnEstablished
    \/ ConnLost(FALSE)
    \/ ConnSleep
    \/ getSignalFd
    \/ \E callback \in BOOLEAN : setSignalCallback(callback)
    \/ setSignalNotifyable
    \/ \E req \in MethodRequests : handleMethodRequest(req)
    \/ NotifyReturn
    \/ \E caller \in {"host", "callback"}, callLimit \in {0, 1} :
          pollCallbacks(caller, callLimit)
    \/ PollInvokeReturn

SpecBridge == Init /\ [][NextBridge]_vars

\* The query handler over every OBJECT query.
NextQuery ==
    \/ init(FALSE)
    \/ \E o \in Objs, key \in KeyArgs, persistent \in BOOLEAN :
          addObject(o, key, persistent)
    \/ ConnEstablished
    \/ ConnLost(FALSE)
    \/ ConnSleep
    \/ \E q \in ObjectQueries : handleGetQuery(q)

SpecQuery == Init /\ [][NextQuery]_vars

\* The method path over every shape of request, inline and through the
\* host thread's poll.
NextMethod ==
    \/ \E e \in BOOLEAN : init(e)
    \/ \E o \in Objs : addObject(o, 1, FALSE)
    \/ \E o \in Objs : ObjResourceDestroy(o)
    \/ handleGetQuery([what |-> "OBJECT", oid |-> ObjectId(bootSequence, 1),
                       cls |-> "", pkg |-> ""])
    \/ ConnEstablished
    \/ ConnLost(FALSE)
    \/ ConnSleep
    \/ \E req \in (IF extThread THEN PolledMethodRequests ELSE AllMethodRequests) :
          handleMethodRequest(req)
    \/ pollCallbacks("host", 0)
    \/ PollInvokeReturn

SpecMethod == Init /\ [][NextMethod]_vars

\* The connection thread step by step, with another thread inside
\* sendMessage.
NextSend ==
    \/ init(FALSE)
    \/ ConnSkip
    \/ \E afterOpen \in BOOLEAN : ConnFailed(afterOpen)
    \/ ConnEstablished
    \/ RunReturned
    \/ \E closeThrows \in BOOLEAN : ConnClose(closeThrows)
    \/ ConnSleep
    \/ \E thread \in Senders : SendCheck(thread)
    \/ \E throws \in BOOLEAN : SendTransfer(throws)

SpecSend == Init /\ [][NextSend]_vars

\* SpecSend with the progress the threads make: run() of a stopped
\* subscription manager returns, close() and sleep() return, and a sender
\* past its check goes on to its transfer.
SpecSendFair ==
    /\ SpecSend
    /\ WF_vars(RunStopped)
    /\ WF_vars(\E closeThrows \in BOOLEAN : ConnClose(closeThrows))
    /\ WF_vars(ConnSleep)
    /\ WF_vars(\E throws \in BOOLEAN : SendTransfer(throws))

\* The connection thread and the shutdown request.
NextShutdown ==
    \/ init(FALSE)
    \/ ConnSkip
    \/ \E afterOpen \in BOOLEAN : ConnFailed(afterOpen)
    \/ ConnEstablished
    \/ \E closeThrows \in BOOLEAN : ConnLost(closeThrows)
    \/ ConnSleep
    \/ handleLocateRequest
    \/ close

\* The progress of the connection thread: an attempt ends (its calls return
\* or throw), run() of a stopped subscription manager returns, sleep()
\* returns.
SpecShutdown ==
    /\ Init
    /\ [][NextShutdown]_vars
    /\ WF_vars(ConnSkip \/ ConnEstablished \/ \E afterOpen \in BOOLEAN : ConnFailed(afterOpen))
    /\ WF_vars(subStop /\ \E closeThrows \in BOOLEAN : ConnLost(closeThrows))
    /\ WF_vars(ConnSleep)

\* The registry from construction to teardown; the host makes no call on an
\* agent that was destroyed.
NextLife ==
    \/ ~TornDown /\ init(FALSE)
    \/ ~TornDown /\ \E o \in Objs, persistent \in BOOLEAN : addObject(o, 1, persistent)
    \/ ~TornDown /\ \E o \in Objs : ObjResourceDestroy(o)
    \/ ~TornDown /\ periodicProcessing
    \/ ConnSkip
    \/ ConnEstablished
    \/ ConnLost(FALSE)
    \/ ConnSleep
    \/ close
    \/ destructor

SpecLife == Init /\ [][NextLife]_vars

\* The publisher thread and the connection thread statement by statement,
\* methods invoked inline, while the host registers and destroys objects:
\* the connection thread connects and handles queries by class and method
\* requests; the publisher runs its passes.
NextThreads ==
    \/ init(FALSE)
    \/ \E t \in {"publisher", "connection"} : SendEnter(t)
    \/ \E t \in {"publisher", "connection"} : SendChecked(t)
    \/ \E t \in {"publisher", "connection"}, throws \in BOOLEAN :
          MessageTransfer(t, throws)
    \/ \E t \in {"publisher", "connection"} : MoveLock(t)
    \/ \E t \in {"publisher", "connection"} : MoveNew(t)
    \/ PublisherLock
    \/ PublisherConnected
    \/ PublisherPass
    \/ PublisherSend
    \/ PublisherReap
    \/ PublisherUnlock
    \/ ConnectionEstablished
    \/ ConnectionEnterRun
    \/ ConnectionRunReturned
    \/ QueryBegin("A")
    \/ QueryNext
    \/ QueryEncode
    \/ \E req \in PolledMethodRequests : MethodReceived(req)
    \/ InvokeFind("connection")
    \/ InvokeDoMethod("connection")
    \/ \E o \in Objs : HostAddObject(o)
    \/ \E o \in Objs : HostResourceDestroy(o)

SpecThreads == Init /\ [][NextThreads]_vars

\* The external-thread bridge statement by statement: the connection thread
\* queues method requests and notifies the host; the host thread polls and
\* invokes them, and raises events.
NextThreadsBridge ==
    \/ init(TRUE)
    \/ \E t \in {"connection", "host"} : SendEnter(t)
    \/ \E t \in {"connection", "host"} : SendChecked(t)
    \/ \E t \in {"connection", "host"}, throws \in BOOLEAN :
          MessageTransfer(t, throws)
    \/ ConnectionEstablished
    \/ ConnectionEnterRun
    \/ ConnectionRunReturned
    \/ \E req \in PolledMethodRequests : MethodReceived(req)
    \/ NotifyReturned
    \/ InvokeFind("host")
    \/ InvokeDoMethod("host")
    \/ \E o \in Objs : HostAddObject(o)
    \/ MoveLock("connection")
    \/ MoveNew("connection")
    \/ QueryBegin("A")
    \/ QueryNext
    \/ QueryEncode
    \/ HostSetNotifyable
    \/ HostRaiseEvent
    \/ HostEventSent
    \/ HostPoll
    \/ HostPollLoop
    \/ HostPollRelock

SpecThreadsBridge == Init /\ [][NextThreadsBridge]_vars

\* The identity store across restarts, from every identity file.
NextBoot ==
    \/ init(FALSE)
    \/ Restart

\* The objects of a registry one pass is run over, and the ObjectIds addObject
\* can give them in the first run of the agent: epoch 0 or the bootSequence,
\* with either key.
PassObjs == 1 .. NPass
PassIds ==
    {ObjectId(AddSequence(persistent, NextBootSequence(0)), key) :
        persistent \in BOOLEAN, key \in Keys}

\* A connected agent between two passes: every object was added under an id
\* of its own and merged by an earlier pass, and the host has since changed
\* properties or statistics of some, destroyed the resource of some, and a
\* console may have been added.
InitPass ==
    \E reg \in [PassObjs -> PassIds], added \in BOOLEAN,
       flags \in [PassObjs -> [configChanged : BOOLEAN, instChanged : BOOLEAN,
                               deleted : BOOLEAN]] :
        /\ \A a, b \in PassObjs : reg[a] = reg[b] => a = b
        /\ storeFile = [valid |-> TRUE, seq |-> NextBootSequence(0)]
        /\ bootSequence = NextBootSequence(0)
        /\ initialized = TRUE
        /\ extThread = FALSE
        /\ packages = EmptyMap
        /\ pipeHandle = FALSE
        /\ shutdown = FALSE
        /\ subStop = FALSE
        /\ connOpen = TRUE
        /\ sender = IdleSender
        /\ subscriptions = TRUE
        /\ agentLock = "free"
        /\ addLock = "free"
        /\ connLock = "free"
        /\ threads = [t \in Threads |-> IdleThread]
        /\ pipeBytes = 0
        /\ notifyable = FALSE
        /\ notifyCallback = FALSE
        /\ methodQueue = <<>>
        /\ inCallback = FALSE
        /\ poll = PollIdle
        /\ ctPc = "running"
        /\ delay = delayMin
        /\ totalSleep = 0
        /\ fails = 0
        /\ baseDelay = delayMin
        /\ lastAttempt = "none"
        /\ newManagementObjects = EmptyMap
        /\ managementObjects =
              [id \in {reg[o] : o \in PassObjs} |->
                  CHOOSE o \in PassObjs : reg[o] = id]
        /\ objs = [o \in PassObjs |->
                      [st |-> "registered",
                       configChanged |-> flags[o].configChanged,
                       instChanged |-> flags[o].instChanged,
                       forcePublish |-> FALSE,
                       deleted |-> flags[o].deleted]]
        /\ clientWasAdded = added
        /\ connected = TRUE
        /\ operational = TRUE
        /\ op = "registered"
        /\ out = <<>>
        /\ seen = NoSeen
        /\ locateSeen = FALSE

\* One publication pass over every such registry.
NextPass == periodicProcessing

SpecPass == InitPass /\ [][NextPass]_vars

SpecBoot == InitBoot /\ [][NextBoot]_vars
=============================================================================
